---- MODULE Spec2Model ----
(***************************************************************************)
(* Model of the B2B tax calculator (app/lib/tax-calculator.ts), of the     *)
(* contribution calculator it is compared with, and of the server          *)
(* endpoints and the simulator page that store a scenario's investments    *)
(* and rate tables and hand them to the calculator.                        *)
(*                                                                         *)
(* Amounts are JavaScript numbers in the source.  They are modelled as     *)
(* exact rationals <<numerator, denominator>> in lowest terms with a       *)
(* positive denominator, so that 0.2, 0.049, price / term ... keep their   *)
(* mathematical value and two amounts are equal exactly when their pairs   *)
(* are equal.                                                              *)
(***************************************************************************)
EXTENDS Integers, Sequences, FiniteSets, TLC

VARIABLES
    scenario,     \* the ScenarioConfig the caller has assembled
    result,       \* outcome of the last engine call on scenario
    car,          \* CarInvestment handed to the per-vehicle functions
    equipment,    \* EquipmentInvestment handed to the per-equipment function
    out,          \* outcome of the last per-investment call
    contribution, \* input, config and monthlyIncome handed to ContributionCalculator
    db,           \* the tables of the D1 database the server reads and writes
    ui,           \* the React state of the simulator page
    response,     \* the last request the server answered, with its response
    pending       \* POST /api/tax-config requests between their select and their write

vars == <<scenario, result, car, equipment, out, contribution, db, ui, response, pending>>

----------------------------------------------------------------------------
(* Exact arithmetic on amounts *)

Abs(n) == IF n < 0 THEN 0 - n ELSE n

RECURSIVE GCD(_, _)
GCD(a, b) == IF b = 0 THEN a ELSE GCD(b, a % b)

\* n / d in lowest terms, d # 0; g is the greatest common divisor of |n|, |d|
Reduce(n, d, g) ==
    IF d < 0 THEN <<(0 - n) \div g, (0 - d) \div g>> ELSE <<n \div g, d \div g>>

Rat(n, d) == Reduce(n, d, GCD(Abs(n), Abs(d)))

Num(n) == <<n, 1>>
Zero == Num(0)
One == Num(1)

LCM(a, b) == (a \div GCD(a, b)) * b

\* l is a common multiple of the two denominators
AddOver(x, y, l) == Rat(x[1] * (l \div x[2]) + y[1] * (l \div y[2]), l)

RAdd(x, y) == AddOver(x, y, LCM(x[2], y[2]))

RNeg(x) == <<0 - x[1], x[2]>>

RSub(x, y) == RAdd(x, RNeg(y))

\* a and b are the cross-reduced factors
Product(a, b) == <<a[1] * b[1], a[2] * b[2]>>

RMul(x, y) == Product(Rat(x[1], y[2]), Rat(y[1], x[2]))

\* x / y for y # 0
RDiv(x, y) == RMul(x, Rat(y[2], y[1]))

LeOver(x, y, l) == x[1] * (l \div x[2]) <= y[1] * (l \div y[2])

RLe(x, y) == LeOver(x, y, LCM(x[2], y[2]))

RLt(x, y) == RLe(x, y) /\ x # y

RMin(x, y) == IF RLe(x, y) THEN x ELSE y

RMax(x, y) == IF RLe(x, y) THEN y ELSE x

\* sum of f[i] over a sequence of amounts, left to right as forEach does
RECURSIVE RSum(_)
RSum(s) ==
    IF Len(s) = 0 THEN Zero ELSE RAdd(RSum(SubSeq(s, 1, Len(s) - 1)), s[Len(s)])

----------------------------------------------------------------------------
(* Types and constants of tax-calculator.ts *)

EngineType == {"combustion", "hybrid_plugin", "electric"}
FinancingMethod == {"cash", "leasing"}
UsageType == {"mixed", "full_business"}
ZusType == {"ulga_na_start", "preferencyjny", "maly_plus", "duzy"}

\* an optional number that was not supplied
undefined == 0 - 1

\* JavaScript !x for an optional number: undefined and 0 are both falsy
Falsy(x) == x = undefined \/ x = 0

CAR_DEPRECIATION_LIMITS ==
    [combustion |-> 100000, hybrid_plugin |-> 150000, electric |-> 225000]

RYCZALT_RATES ==
    [it_services |-> Rat(12, 100), trade |-> Rat(3, 100), services_general |-> Rat(85, 1000)]

TAX_SCALE_BRACKETS ==
    [tax_free_allowance |-> 30000,
     first_bracket_rate |-> Rat(12, 100),
     first_bracket_limit |-> 120000,
     second_bracket_rate |-> Rat(32, 100)]

HEALTH_INSURANCE ==
    [liniowy |-> Rat(49, 1000), skala |-> Rat(9, 100), ryczalt |-> Rat(49, 1000)]

----------------------------------------------------------------------------
(* Outcome of a call that may throw *)

NoValue == <<>>
Return(v) == [ok |-> TRUE, val |-> v, error |-> ""]
Throw ==
    [ok |-> FALSE, val |-> NoValue,
     error |-> "Leasing parameters required for leasing financing method"]

----------------------------------------------------------------------------
(* Per-investment functions of TaxCalculator *)

\* Math.min(13 - monthOfPurchase, leasingMonths)
LeasingMonthsInYear(c) ==
    IF 13 - c.monthOfPurchase <= c.leasingMonths
    THEN 13 - c.monthOfPurchase ELSE c.leasingMonths

\* DeductibleRatio without the cap: the whole instalment is deducted
DeductibleRatio_Uncapped(c) == One

\* Math.min(1, limit / carPriceNetto); limit / 0 is Infinity in JavaScript,
\* and Math.min(1, Infinity) is 1
DeductibleRatio(c) ==
    IF c.carPriceNetto = 0
    THEN One
    ELSE RMin(One, Rat(CAR_DEPRECIATION_LIMITS[c.engineType], c.carPriceNetto))

\* the amounts the leasing branch adds up, from its locals
LeasingDeductions(initialPayment, capitalPart, deductibleRatio, monthsInYear, leasingMonths) ==
    [capitalPart |-> capitalPart,
     yearlyCapitalDeductible |->
        RMul(RMul(RDiv(capitalPart, Num(leasingMonths)), Num(monthsInYear)),
             deductibleRatio),
     initialPaymentDeductible |-> RMul(initialPayment, deductibleRatio),
     yearlyInterest |->
        RDiv(RMul(RMul(capitalPart, Rat(5, 100)), Num(monthsInYear)), Num(12))]

CapitalPart(totalLeasingCost, initialPayment, buyout) ==
    RSub(RSub(totalLeasingCost, initialPayment), buyout)

\* the leasing branch of calculateCarDepreciation for a car that passed the
\* parameter check
LeasingParts(c) ==
    LeasingDeductions(
        RMul(Num(c.carPriceNetto), Rat(c.leasingInitialPaymentPercent, 100)),
        CapitalPart(Num(c.carPriceNetto),
                    RMul(Num(c.carPriceNetto), Rat(c.leasingInitialPaymentPercent, 100)),
                    RMul(Num(c.carPriceNetto), Rat(c.leasingBuyoutPercent, 100))),
        DeductibleRatio(c),
        LeasingMonthsInYear(c),
        c.leasingMonths)

LeasingTotal(p) ==
    RAdd(RAdd(p.initialPaymentDeductible, p.yearlyCapitalDeductible), p.yearlyInterest)

\* calculateCarDepreciation with the cash branch depreciating the full price
calculateCarDepreciation_NoCeiling(c) ==
    IF c.financingMethod = "cash"
    THEN Return(RDiv(RMul(RMul(Num(c.carPriceNetto), Rat(20, 100)),
                          Num(13 - c.monthOfPurchase)), Num(12)))
    ELSE IF Falsy(c.leasingMonths) \/ Falsy(c.leasingInitialPaymentPercent)
               \/ Falsy(c.leasingBuyoutPercent)
         THEN Throw
         ELSE Return(LeasingTotal(LeasingParts(c)))

\* calculateCarDepreciation counting a lease without its parameters as zero
calculateCarDepreciation_ZeroOnMissing(c) ==
    IF c.financingMethod = "cash"
    THEN Return(RDiv(RMul(RMul(Num(IF c.carPriceNetto <= CAR_DEPRECIATION_LIMITS[c.engineType]
                                    THEN c.carPriceNetto
                                    ELSE CAR_DEPRECIATION_LIMITS[c.engineType]),
                               Rat(20, 100)),
                          Num(13 - c.monthOfPurchase)), Num(12)))
    ELSE IF Falsy(c.leasingMonths) \/ Falsy(c.leasingInitialPaymentPercent)
               \/ Falsy(c.leasingBuyoutPercent)
         THEN Return(Zero)
         ELSE Return(LeasingTotal(LeasingParts(c)))

calculateCarDepreciation(c) ==
    LET limit == CAR_DEPRECIATION_LIMITS[c.engineType]
    IN  IF c.financingMethod = "cash"
        THEN LET depreciableAmount ==
                     IF c.carPriceNetto <= limit THEN c.carPriceNetto ELSE limit
                 monthsInYear == 13 - c.monthOfPurchase
             IN  Return(RDiv(RMul(RMul(Num(depreciableAmount), Rat(20, 100)),
                                  Num(monthsInYear)), Num(12)))
        ELSE IF Falsy(c.leasingMonths) \/ Falsy(c.leasingInitialPaymentPercent)
                   \/ Falsy(c.leasingBuyoutPercent)
             THEN Throw
             ELSE Return(LeasingTotal(LeasingParts(c)))

\* calculateCarVATBenefit recovering the whole VAT whatever the usage
calculateCarVATBenefit_IgnoresUsage(c) == RMul(Num(c.carPriceNetto), Rat(23, 100))

calculateCarVATBenefit(c) ==
    LET vatRate == Rat(23, 100)
        vatAmount == RMul(Num(c.carPriceNetto), vatRate)
    IN  IF c.usageType = "full_business"
        THEN vatAmount
        ELSE RMul(vatAmount, Rat(50, 100))

\* calculateEquipmentDepreciation without the proration by purchase month
calculateEquipmentDepreciation_FullYear(e) == RMul(Num(e.costNetto), Rat(30, 100))

calculateEquipmentDepreciation(e) ==
    LET monthsInYear == 13 - e.monthOfPurchase
    IN  RDiv(RMul(RMul(Num(e.costNetto), Rat(30, 100)), Num(monthsInYear)), Num(12))

----------------------------------------------------------------------------
(* Inputs of the per-investment functions *)

Months == {1, 7, 12}
CarPrices == {0, 80000, 150000, 300000}
LeasingInitialPaymentPercents == {undefined, 0, 10}
LeasingMonthsValues == {undefined, 3, 48}
LeasingBuyoutPercents == {undefined, 0, 1}
EquipmentCosts == {0, 10000}

CarInvestment ==
    [carPriceNetto : CarPrices,
     engineType : EngineType,
     financingMethod : FinancingMethod,
     usageType : UsageType,
     leasingInitialPaymentPercent : LeasingInitialPaymentPercents,
     leasingMonths : LeasingMonthsValues,
     leasingBuyoutPercent : LeasingBuyoutPercents,
     monthOfPurchase : Months]

EquipmentInvestment == [costNetto : EquipmentCosts, monthOfPurchase : Months]

NoCall == [fn |-> "none"]

----------------------------------------------------------------------------
(* Rate configuration *)

\* ScenarioConfig.taxYearConfig was not supplied
NoConfig == [year |-> undefined]

\* the tax_year_configs row seeded for 2026
SeededConfig2026 ==
    [year |-> 2026,
     minimumWageGross |-> 4626,
     averageWagePrognosis |-> 7286,
     averageWageQ4PreviousYear |-> 7000,
     retirementRate |-> Rat(1952, 10000),
     disabilityRate |-> Rat(8, 100),
     accidentRate |-> Rat(167, 10000),
     sicknessRate |-> Rat(245, 10000),
     workFundRate |-> Rat(245, 10000),
     solidarityFundRate |-> Rat(245, 10000),
     healthInsuranceRateSkala |-> Rat(9, 100),
     healthInsuranceRateLiniowy |-> Rat(49, 1000),
     healthInsuranceLimitLinear |-> 11600]

\* the tiers scaled by the supplied config's minimum wage (4,626 in the
\* built-in table's year)
getZUSMonthly_FromConfig(zusType, config) ==
    LET ZUS_MONTHLY_RATES ==
            [ulga_na_start |-> 0, preferencyjny |-> 650, maly_plus |-> 1700, duzy |-> 1900]
    IN  IF config # NoConfig
        THEN (ZUS_MONTHLY_RATES[zusType] * config.minimumWageGross) \div 4000
        ELSE ZUS_MONTHLY_RATES[zusType]

getZUSMonthly(zusType, config) ==
    LET ZUS_MONTHLY_RATES ==
            [ulga_na_start |-> 0, preferencyjny |-> 650, maly_plus |-> 1700, duzy |-> 1900]
    IN  ZUS_MONTHLY_RATES[zusType]

getHealthInsuranceRates(config) ==
    IF config # NoConfig
    THEN [liniowy |-> config.healthInsuranceRateLiniowy,
          skala |-> config.healthInsuranceRateSkala,
          ryczalt |-> config.healthInsuranceRateLiniowy]
    ELSE HEALTH_INSURANCE

\* the limit taken from the built-in default whatever the config
getHealthInsuranceLimit_IgnoresConfig(config) == 11000

getHealthInsuranceLimit(config) ==
    IF config # NoConfig THEN config.healthInsuranceLimitLinear ELSE 11000

calculateYearlyZUS(zusType, config) ==
    LET monthlyRate == getZUSMonthly(zusType, config)
    IN  monthlyRate * 12

----------------------------------------------------------------------------
(* ContributionCalculator: health insurance per month *)

DEFAULT_2026_CONFIG ==
    [year |-> 2026,
     minimumWageGross |-> 4626,
     averageWagePrognosis |-> 7286,
     averageWageQ4PreviousYear |-> 7000,
     socialSecurityRates |->
        [retirement |-> Rat(1952, 10000), disability |-> Rat(8, 100),
         accident |-> Rat(167, 10000), sickness |-> Rat(245, 10000)],
     workFundRate |-> Rat(245, 10000),
     solidarityFundRate |-> Rat(245, 10000),
     healthInsuranceRate |-> [skala |-> Rat(9, 100), liniowy |-> Rat(49, 1000)],
     minHealthInsuranceLinear |-> RMul(Num(4626), Rat(9, 100)),
     healthInsuranceLimits |-> [linear |-> 11600]]

\* the flat-rate branch shared by the two variants below
HealthInsuranceRyczaltBranch(input, config) ==
    LET base == Num(config.averageWageQ4PreviousYear)
        rateMultiplier ==
            IF ~Falsy(input.yearlyRevenueToDate) /\ input.yearlyRevenueToDate <= 60000
            THEN Rat(6, 10)
            ELSE IF ~Falsy(input.yearlyRevenueToDate)
                     /\ input.yearlyRevenueToDate <= 300000
            THEN One
            ELSE Rat(18, 10)
        amount == RMul(RMul(base, Rat(9, 100)), rateMultiplier)
    IN  [amount |-> amount,
         deductibleFromIncome |-> RMul(amount, Rat(5, 10)),
         deductibleFromTax |-> Zero]

\* the linear amount without the guaranteed minimum
calculateHealthInsurance_NoLinearMinimum(input, config, monthlyIncome) ==
    IF input.taxationForm = "skala"
    THEN LET base == RMax(monthlyIncome, Num(config.minimumWageGross))
             amount == RMul(base, config.healthInsuranceRate.skala)
         IN  [amount |-> amount, deductibleFromIncome |-> amount, deductibleFromTax |-> Zero]
    ELSE IF input.taxationForm = "liniowy"
    THEN LET base == RMax(monthlyIncome, Num(config.minimumWageGross))
             amount == RMul(base, config.healthInsuranceRate.liniowy)
         IN  [amount |-> amount, deductibleFromIncome |-> amount, deductibleFromTax |-> Zero]
    ELSE IF input.taxationForm = "ryczalt"
    THEN HealthInsuranceRyczaltBranch(input, config)
    ELSE [amount |-> Zero, deductibleFromIncome |-> Zero, deductibleFromTax |-> Zero]

\* the scale amount charged on the income itself, with no minimum-wage base
calculateHealthInsurance_ScaleOnIncome(input, config, monthlyIncome) ==
    IF input.taxationForm = "skala"
    THEN LET amount == RMul(monthlyIncome, config.healthInsuranceRate.skala)
         IN  [amount |-> amount, deductibleFromIncome |-> amount, deductibleFromTax |-> Zero]
    ELSE IF input.taxationForm = "liniowy"
    THEN LET base == RMax(monthlyIncome, Num(config.minimumWageGross))
             amount == RMax(RMul(base, config.healthInsuranceRate.liniowy),
                            config.minHealthInsuranceLinear)
         IN  [amount |-> amount, deductibleFromIncome |-> amount, deductibleFromTax |-> Zero]
    ELSE IF input.taxationForm = "ryczalt"
    THEN HealthInsuranceRyczaltBranch(input, config)
    ELSE [amount |-> Zero, deductibleFromIncome |-> Zero, deductibleFromTax |-> Zero]

\* input.yearlyRevenueToDate is optional: undefined and 0 are both falsy in
\* the two tier tests
calculateHealthInsurance(input, config, monthlyIncome) ==
    IF input.taxationForm = "skala"
    THEN LET base == RMax(monthlyIncome, Num(config.minimumWageGross))
             amount == RMul(base, config.healthInsuranceRate.skala)
         IN  [amount |-> amount, deductibleFromIncome |-> amount, deductibleFromTax |-> Zero]
    ELSE IF input.taxationForm = "liniowy"
    THEN LET base == RMax(monthlyIncome, Num(config.minimumWageGross))
             amount == RMax(RMul(base, config.healthInsuranceRate.liniowy),
                            config.minHealthInsuranceLinear)
         IN  [amount |-> amount, deductibleFromIncome |-> amount, deductibleFromTax |-> Zero]
    ELSE IF input.taxationForm = "ryczalt"
    THEN LET base == Num(config.averageWageQ4PreviousYear)
             rateMultiplier ==
                 IF ~Falsy(input.yearlyRevenueToDate) /\ input.yearlyRevenueToDate <= 60000
                 THEN Rat(6, 10)
                 ELSE IF ~Falsy(input.yearlyRevenueToDate)
                          /\ input.yearlyRevenueToDate <= 300000
                 THEN One
                 ELSE Rat(18, 10)
             amount == RMul(RMul(base, Rat(9, 100)), rateMultiplier)
         IN  [amount |-> amount,
              deductibleFromIncome |-> RMul(amount, Rat(5, 10)),
              deductibleFromTax |-> Zero]
    ELSE [amount |-> Zero, deductibleFromIncome |-> Zero, deductibleFromTax |-> Zero]

\* x || undefined on an optional amount of the breakdown
OrUndefined(x) == IF x = Zero THEN NoValue ELSE x

\* the two funds charged for every class
FundsCharged_Always(input, config, base) == TRUE

\* workFund and solidarityFund: charged unless preferencyjny with a base below
\* the minimum wage
FundsCharged(input, config, base) ==
    input.zusType # "preferencyjny" \/ RLe(Num(config.minimumWageGross), base)

\* the total summed without the voluntary sickness component
SocialSecurityComponents_TotalWithoutSickness(input, config, base) ==
    LET retirement == RMul(base, config.socialSecurityRates.retirement)
        disability == RMul(base, config.socialSecurityRates.disability)
        accident == RMul(base, config.socialSecurityRates.accident)
        sickness == IF input.voluntarySickness
                    THEN RMul(base, config.socialSecurityRates.sickness)
                    ELSE Zero
        workFund == IF FundsCharged(input, config, base)
                    THEN RMul(base, config.workFundRate)
                    ELSE Zero
        solidarityFund == IF FundsCharged(input, config, base)
                          THEN RMul(base, config.solidarityFundRate)
                          ELSE Zero
        total == RSum(<<retirement, disability, accident, workFund, solidarityFund>>)
    IN  [amount |-> total,
         base |-> base,
         breakdown |-> [retirement |-> retirement,
                        disability |-> disability,
                        accident |-> accident,
                        sickness |-> OrUndefined(sickness),
                        workFund |-> OrUndefined(workFund),
                        solidarityFund |-> OrUndefined(solidarityFund),
                        healthInsurance |-> Zero]]

\* Step 2 of calculateSocialSecurity, for a non-zero base
SocialSecurityComponents(input, config, base) ==
    LET retirement == RMul(base, config.socialSecurityRates.retirement)
        disability == RMul(base, config.socialSecurityRates.disability)
        accident == RMul(base, config.socialSecurityRates.accident)
        sickness == IF input.voluntarySickness
                    THEN RMul(base, config.socialSecurityRates.sickness)
                    ELSE Zero
        workFund == IF FundsCharged(input, config, base)
                    THEN RMul(base, config.workFundRate)
                    ELSE Zero
        solidarityFund == IF FundsCharged(input, config, base)
                          THEN RMul(base, config.solidarityFundRate)
                          ELSE Zero
        total == RSum(<<retirement, disability, accident, sickness, workFund,
                        solidarityFund>>)
    IN  [amount |-> total,
         base |-> base,
         breakdown |-> [retirement |-> retirement,
                        disability |-> disability,
                        accident |-> accident,
                        sickness |-> OrUndefined(sickness),
                        workFund |-> OrUndefined(workFund),
                        solidarityFund |-> OrUndefined(solidarityFund),
                        healthInsurance |-> Zero]]

\* Step 1 of calculateSocialSecurity: the base (podstawa wymiaru)
SocialSecurityBase(input, config) ==
    IF input.zusType = "ulga_na_start" THEN Zero
    ELSE IF input.zusType = "preferencyjny"
    THEN RMul(Num(config.minimumWageGross), Rat(3, 10))
    ELSE IF input.zusType = "duzy"
    THEN RMul(Num(config.averageWagePrognosis), Rat(6, 10))
    ELSE IF input.zusType = "maly_plus"
    THEN IF Falsy(input.monthlySocialSecurityBase)
         THEN Num(config.minimumWageGross)
         ELSE Num(input.monthlySocialSecurityBase)
    ELSE Zero

SocialSecurityFromBase(input, config, base) ==
    IF base = Zero
    THEN [amount |-> Zero,
          base |-> Zero,
          breakdown |-> [retirement |-> Zero, disability |-> Zero, accident |-> Zero,
                         workFund |-> Zero, solidarityFund |-> Zero,
                         healthInsurance |-> Zero]]
    ELSE SocialSecurityComponents(input, config, base)

calculateSocialSecurity(input, config) ==
    SocialSecurityFromBase(input, config, SocialSecurityBase(input, config))

\* a TaxYearConfig with the wages of the row seeded for 2025
CONFIG_2025 ==
    [DEFAULT_2026_CONFIG EXCEPT
        !.year = 2025,
        !.minimumWageGross = 4388,
        !.averageWagePrognosis = 7143,
        !.minHealthInsuranceLinear = RMul(Num(4388), Rat(9, 100)),
        !.healthInsuranceLimits = [linear |-> 11300]]

TaxYearConfig == {DEFAULT_2026_CONFIG, CONFIG_2025}

TaxationForm == {"liniowy", "skala", "ryczalt"}
SocialSecurityBases == {undefined, 0, 3000, 5000}
YearlyRevenuesToDate == {undefined, 0, 1, 60000, 60001, 300000, 300001}
MonthlyIncomes == {0, 4000, 15000}

ContributionInput ==
    [taxationForm : TaxationForm,
     zusType : ZusType,
     monthlySocialSecurityBase : SocialSecurityBases,
     voluntarySickness : BOOLEAN,
     yearlyRevenueToDate : YearlyRevenuesToDate]

DefaultContribution ==
    [input |-> [taxationForm |-> "liniowy", zusType |-> "maly_plus",
                monthlySocialSecurityBase |-> undefined, voluntarySickness |-> FALSE,
                yearlyRevenueToDate |-> undefined],
     config |-> DEFAULT_2026_CONFIG,
     monthlyIncome |-> 12000]

----------------------------------------------------------------------------
(* Regime calculators of TaxCalculator *)

\* a forEach over the cars that calls calculateCarDepreciation throws as soon
\* as one call throws
DepreciationThrows(config) ==
    \E i \in 1..Len(config.carInvestments) :
        ~calculateCarDepreciation(config.carInvestments[i]).ok

\* let carDepreciation = 0; forEach car: += calculateCarDepreciation(car)
CarDepreciationSum(config) ==
    LET CarDep(c) == calculateCarDepreciation(c).val
    IN  RSum([i \in 1..Len(config.carInvestments) |-> CarDep(config.carInvestments[i])])

\* let equipmentDepreciation = 0; forEach eq: += calculateEquipmentDepreciation(eq)
EquipmentDepreciationSum(config) ==
    RSum([i \in 1..Len(config.equipmentInvestments) |-> calculateEquipmentDepreciation(config.equipmentInvestments[i])])

\* twelve monthly contributions by the ContributionCalculator's ryczalt formula
\* (the fixed amount when no rate table is supplied)
healthInsuranceRyczalt_Contribution(config) ==
    IF config.taxYearConfig = NoConfig
    THEN Num(6000)
    ELSE RMul(Num(12),
              calculateHealthInsurance(
                  [taxationForm |-> "ryczalt",
                   yearlyRevenueToDate |-> config.yearlyRevenueNetto],
                  config.taxYearConfig, Zero).amount)

\* "Approximate fixed amount for ryczalt"
healthInsuranceRyczalt(config) == Num(6000)

vatBenefitRyczalt(config) ==
    LET CarVat(c) == RMul(calculateCarVATBenefit(c), config.vatRateMixed)
        EqVat(e) == RMul(RMul(Num(e.costNetto), Rat(23, 100)), config.vatRateMixed)
    IN  IF config.vatPayer
        THEN RAdd(RSum([i \in 1..Len(config.carInvestments) |-> CarVat(config.carInvestments[i])]),
                  RSum([i \in 1..Len(config.equipmentInvestments) |-> EqVat(config.equipmentInvestments[i])]))
        ELSE Zero

vatBenefitLiniowy(config) ==
    LET CarVat(c) == RMul(calculateCarVATBenefit(c), config.vatRateMixed)
        EqVat(e) == RMul(RMul(Num(e.costNetto), Rat(23, 100)), config.vatRateMixed)
    IN  IF config.vatPayer
        THEN RAdd(RSum([i \in 1..Len(config.carInvestments) |-> CarVat(config.carInvestments[i])]),
                  RSum([i \in 1..Len(config.equipmentInvestments) |-> EqVat(config.equipmentInvestments[i])]))
        ELSE Zero

vatBenefitSkala(config) ==
    LET CarVat(c) == RMul(calculateCarVATBenefit(c), config.vatRateMixed)
        EqVat(e) == RMul(RMul(Num(e.costNetto), Rat(23, 100)), config.vatRateMixed)
    IN  IF config.vatPayer
        THEN RAdd(RSum([i \in 1..Len(config.carInvestments) |-> CarVat(config.carInvestments[i])]),
                  RSum([i \in 1..Len(config.equipmentInvestments) |-> EqVat(config.equipmentInvestments[i])]))
        ELSE Zero

netCashInHandRyczalt(grossRevenue, incomeTax, healthInsurance, zusTotal, vatBenefit) ==
    RAdd(RSub(RSub(RSub(grossRevenue, incomeTax), healthInsurance), zusTotal), vatBenefit)

\* the returned object of calculateRyczalt, from its locals
RyczaltResult(grossRevenue, incomeTax, healthInsurance, zusTotal, vatBenefit) ==
    [taxationForm |-> "ryczalt",
     grossRevenue |-> grossRevenue,
     totalCosts |-> Zero,
     taxableIncome |-> grossRevenue,
     incomeTax |-> incomeTax,
     healthInsurance |-> healthInsurance,
     zusTotal |-> zusTotal,
     netCashInHand |->
        netCashInHandRyczalt(grossRevenue, incomeTax, healthInsurance, zusTotal, vatBenefit),
     breakdown |-> [carDepreciationDeduction |-> Zero,
                    equipmentDepreciationDeduction |-> Zero,
                    vatBenefit |-> vatBenefit]]

\* calculateRyczalt taxing the revenue left after the fixed costs
calculateRyczalt_DeductsCosts(config) ==
    Return(RyczaltResult(
        Num(config.yearlyRevenueNetto),
        RMul(RMax(Zero, RSub(Num(config.yearlyRevenueNetto), Num(config.yearlyFixedCosts))),
             RYCZALT_RATES.it_services),
        healthInsuranceRyczalt(config),
        Num(calculateYearlyZUS(config.zusType, config.taxYearConfig)),
        vatBenefitRyczalt(config)))

calculateRyczalt(config) ==
    Return(RyczaltResult(
        Num(config.yearlyRevenueNetto),
        RMul(Num(config.yearlyRevenueNetto), RYCZALT_RATES.it_services),
        healthInsuranceRyczalt(config),
        Num(calculateYearlyZUS(config.zusType, config.taxYearConfig)),
        vatBenefitRyczalt(config)))

\* totalCosts leaving the equipment depreciation out
totalCostsLiniowy_NoEquipment(yearlyFixedCosts, carDepreciation, equipmentDepreciation) ==
    RAdd(Num(yearlyFixedCosts), carDepreciation)

totalCostsLiniowy(yearlyFixedCosts, carDepreciation, equipmentDepreciation) ==
    RAdd(RAdd(Num(yearlyFixedCosts), carDepreciation), equipmentDepreciation)

\* the progressive regime's tax-free allowance taken off the linear base too
taxableIncomeLiniowy_LessAllowance(grossRevenue, totalCosts) ==
    RMax(Zero, RSub(RSub(grossRevenue, totalCosts),
                    Num(TAX_SCALE_BRACKETS.tax_free_allowance)))

taxableIncomeLiniowy(grossRevenue, totalCosts) ==
    RMax(Zero, RSub(grossRevenue, totalCosts))

\* netCashInHand that forgets to subtract the costs
netCashInHandLiniowy_KeepsCosts(grossRevenue, totalCosts, incomeTax, healthInsurance, zusTotal, vatBenefit) ==
    RAdd(RSub(RSub(RSub(grossRevenue, incomeTax), healthInsurance), zusTotal), vatBenefit)

netCashInHandLiniowy(grossRevenue, totalCosts, incomeTax, healthInsurance, zusTotal, vatBenefit) ==
    RAdd(RSub(RSub(RSub(RSub(grossRevenue, totalCosts), incomeTax), healthInsurance),
              zusTotal), vatBenefit)

\* the returned object of calculateLiniowy, from its locals
LiniowyResult(grossRevenue, carDepreciation, equipmentDepreciation, totalCosts, taxableIncome, healthInsuranceRate, healthInsuranceLimit, zusTotal, vatBenefit) ==
    LET incomeTax == RMul(taxableIncome, Rat(19, 100))
        healthInsuranceBase == taxableIncome
        healthInsurance ==
            RMin(RMul(healthInsuranceBase, healthInsuranceRate), healthInsuranceLimit)
    IN  [taxationForm |-> "liniowy",
         grossRevenue |-> grossRevenue,
         totalCosts |-> totalCosts,
         taxableIncome |-> taxableIncome,
         incomeTax |-> incomeTax,
         healthInsurance |-> healthInsurance,
         zusTotal |-> zusTotal,
         netCashInHand |->
            netCashInHandLiniowy(grossRevenue, totalCosts, incomeTax, healthInsurance,
                                 zusTotal, vatBenefit),
         breakdown |-> [carDepreciationDeduction |-> carDepreciation,
                        equipmentDepreciationDeduction |-> equipmentDepreciation,
                        vatBenefit |-> vatBenefit]]

LiniowyFromDepreciation(config, grossRevenue, carDepreciation, equipmentDepreciation, totalCosts) ==
    LiniowyResult(grossRevenue, carDepreciation, equipmentDepreciation, totalCosts,
                  taxableIncomeLiniowy(grossRevenue, totalCosts),
                  getHealthInsuranceRates(config.taxYearConfig).liniowy,
                  Num(getHealthInsuranceLimit(config.taxYearConfig)),
                  Num(calculateYearlyZUS(config.zusType, config.taxYearConfig)),
                  vatBenefitLiniowy(config))

LiniowyFromSums(config, carDepreciation, equipmentDepreciation) ==
    LiniowyFromDepreciation(config, Num(config.yearlyRevenueNetto), carDepreciation,
        equipmentDepreciation,
        totalCostsLiniowy(config.yearlyFixedCosts, carDepreciation, equipmentDepreciation))

calculateLiniowy(config) ==
    IF DepreciationThrows(config)
    THEN Throw
    ELSE Return(LiniowyFromSums(config, CarDepreciationSum(config),
                                EquipmentDepreciationSum(config)))

totalCostsSkala(yearlyFixedCosts, carDepreciation, equipmentDepreciation) ==
    RAdd(RAdd(Num(yearlyFixedCosts), carDepreciation), equipmentDepreciation)

\* the progressive tax on taxableIncome
\* the second rate applied to the whole amount once the limit is passed
incomeTaxSkala_WholeAtSecondRate(taxableIncome) ==
    IF RLe(taxableIncome, Num(TAX_SCALE_BRACKETS.first_bracket_limit))
    THEN RMul(taxableIncome, TAX_SCALE_BRACKETS.first_bracket_rate)
    ELSE RMul(taxableIncome, TAX_SCALE_BRACKETS.second_bracket_rate)

incomeTaxSkala(taxableIncome) ==
    IF RLe(taxableIncome, Num(TAX_SCALE_BRACKETS.first_bracket_limit))
    THEN RMul(taxableIncome, TAX_SCALE_BRACKETS.first_bracket_rate)
    ELSE LET firstBracketTax ==
                 RMul(Num(TAX_SCALE_BRACKETS.first_bracket_limit),
                      TAX_SCALE_BRACKETS.first_bracket_rate)
             secondBracketIncome ==
                 RSub(taxableIncome, Num(TAX_SCALE_BRACKETS.first_bracket_limit))
             secondBracketTax ==
                 RMul(secondBracketIncome, TAX_SCALE_BRACKETS.second_bracket_rate)
         IN  RAdd(firstBracketTax, secondBracketTax)

netCashInHandSkala(grossRevenue, totalCosts, incomeTax, healthInsurance, zusTotal, vatBenefit) ==
    RAdd(RSub(RSub(RSub(RSub(grossRevenue, totalCosts), incomeTax), healthInsurance),
              zusTotal), vatBenefit)

\* the returned object of calculateSkala, from its locals
SkalaResult(grossRevenue, carDepreciation, equipmentDepreciation, totalCosts, taxableIncome, incomeTax, healthInsurance, zusTotal, vatBenefit) ==
    [taxationForm |-> "skala",
     grossRevenue |-> grossRevenue,
     totalCosts |-> totalCosts,
     taxableIncome |-> taxableIncome,
     incomeTax |-> incomeTax,
     healthInsurance |-> healthInsurance,
     zusTotal |-> zusTotal,
     netCashInHand |->
        netCashInHandSkala(grossRevenue, totalCosts, incomeTax, healthInsurance,
                           zusTotal, vatBenefit),
     breakdown |-> [carDepreciationDeduction |-> carDepreciation,
                    equipmentDepreciationDeduction |-> equipmentDepreciation,
                    vatBenefit |-> vatBenefit]]

\* healthInsurance charged on the income left after the tax-free allowance
SkalaFromIncome_HealthAfterAllowance(config, grossRevenue, carDepreciation, equipmentDepreciation, totalCosts, income, taxableIncome) ==
    SkalaResult(grossRevenue, carDepreciation, equipmentDepreciation, totalCosts,
                taxableIncome,
                incomeTaxSkala(taxableIncome),
                RMul(taxableIncome, getHealthInsuranceRates(config.taxYearConfig).skala),
                Num(calculateYearlyZUS(config.zusType, config.taxYearConfig)),
                vatBenefitSkala(config))

SkalaFromIncome(config, grossRevenue, carDepreciation, equipmentDepreciation, totalCosts, income, taxableIncome) ==
    SkalaResult(grossRevenue, carDepreciation, equipmentDepreciation, totalCosts,
                taxableIncome,
                incomeTaxSkala(taxableIncome),
                RMul(income, getHealthInsuranceRates(config.taxYearConfig).skala),
                Num(calculateYearlyZUS(config.zusType, config.taxYearConfig)),
                vatBenefitSkala(config))

SkalaFromDepreciation(config, grossRevenue, carDepreciation, equipmentDepreciation, totalCosts, income) ==
    SkalaFromIncome(config, grossRevenue, carDepreciation, equipmentDepreciation,
                    totalCosts, income,
                    RMax(Zero, RSub(income, Num(TAX_SCALE_BRACKETS.tax_free_allowance))))

SkalaFromSums(config, grossRevenue, carDepreciation, equipmentDepreciation, totalCosts) ==
    SkalaFromDepreciation(config, grossRevenue, carDepreciation, equipmentDepreciation,
                          totalCosts, RMax(Zero, RSub(grossRevenue, totalCosts)))

calculateSkala(config) ==
    IF DepreciationThrows(config)
    THEN Throw
    ELSE Return(SkalaFromSums(config, Num(config.yearlyRevenueNetto),
                    CarDepreciationSum(config), EquipmentDepreciationSum(config),
                    totalCostsSkala(config.yearlyFixedCosts, CarDepreciationSum(config),
                                    EquipmentDepreciationSum(config))))

\* the object literal evaluates the three calls in order; the first throw
\* leaves compareAll without a value
ComparisonResult(ryczalt, liniowy, skala) ==
    IF ~ryczalt.ok \/ ~liniowy.ok \/ ~skala.ok
    THEN Throw
    ELSE Return([ryczalt |-> ryczalt.val, liniowy |-> liniowy.val, skala |-> skala.val])

\* the skala entry filled by a second call of calculateLiniowy
compareAll_LiniowyTwice(config) ==
    ComparisonResult(calculateRyczalt(config), calculateLiniowy(config),
                     calculateLiniowy(config))

compareAll(config) ==
    ComparisonResult(calculateRyczalt(config), calculateLiniowy(config),
                     calculateSkala(config))

----------------------------------------------------------------------------
(* The caller: the revenue forecast, VAT posture, contribution class and   *)
(* rate table of a scenario are fixed when it is created; investments are  *)
(* then added and removed, and the scenario is handed to one entry point   *)
(* of the engine.  Changing the scenario starts a new computation, so the  *)
(* previous call's outcome is dropped.                                     *)

MaxInvestments == 2

Revenues == {50000, 180000, 400000}
FixedCosts == {36000, 200000}
VatRatesMixed == {One, Rat(1, 2)}
TaxYearConfigs == {NoConfig, SeededConfig2026}

\* the vehicles a scenario is built from: a cash purchase above the ceiling,
\* a complete lease, a lease without a term and a lease with 0% down payment
ScenarioCars ==
    {[carPriceNetto |-> 150000, engineType |-> "combustion", financingMethod |-> "cash",
      usageType |-> "mixed", leasingInitialPaymentPercent |-> undefined,
      leasingMonths |-> undefined, leasingBuyoutPercent |-> undefined,
      monthOfPurchase |-> 1],
     [carPriceNetto |-> 300000, engineType |-> "electric", financingMethod |-> "leasing",
      usageType |-> "full_business", leasingInitialPaymentPercent |-> 10,
      leasingMonths |-> 48, leasingBuyoutPercent |-> 1, monthOfPurchase |-> 7],
     [carPriceNetto |-> 150000, engineType |-> "hybrid_plugin", financingMethod |-> "leasing",
      usageType |-> "mixed", leasingInitialPaymentPercent |-> 10,
      leasingMonths |-> undefined, leasingBuyoutPercent |-> 1, monthOfPurchase |-> 1],
     [carPriceNetto |-> 150000, engineType |-> "combustion", financingMethod |-> "leasing",
      usageType |-> "full_business", leasingInitialPaymentPercent |-> 0,
      leasingMonths |-> 48, leasingBuyoutPercent |-> 1, monthOfPurchase |-> 1]}

ScenarioEquipment ==
    {[costNetto |-> 10000, monthOfPurchase |-> 1],
     [costNetto |-> 10000, monthOfPurchase |-> 7]}

\* the initial state of ConfigurationForm, computed with the seeded 2026 rates
DefaultScenario ==
    [yearlyRevenueNetto |-> 180000,
     yearlyFixedCosts |-> 36000,
     vatPayer |-> TRUE,
     vatRateMixed |-> One,
     zusType |-> "maly_plus",
     carInvestments |-> <<>>,
     equipmentInvestments |-> <<>>,
     taxYearConfig |-> SeededConfig2026]

\* the initial state of CarInvestmentForm
DefaultCar ==
    [carPriceNetto |-> 120000, engineType |-> "combustion", financingMethod |-> "leasing",
     usageType |-> "mixed", leasingInitialPaymentPercent |-> 10, leasingMonths |-> 48,
     leasingBuyoutPercent |-> 1, monthOfPurchase |-> 1]

DefaultEquipment == [costNetto |-> 10000, monthOfPurchase |-> 1]

RemoveAt(s, i) == SubSeq(s, 1, i - 1) \o SubSeq(s, i + 1, Len(s))

----------------------------------------------------------------------------
(* The database as schema.sql creates it, and the simulator page as it is  *)
(* mounted.  Ids are uuids in the source; a stored id is modelled as a     *)
(* positive integer no other row of the store carries, and the seeded row  *)
(* 'cfg-<year>' carries its year as id.                                    *)

SeedRow(year, minimumWageGross, averageWagePrognosis, averageWageQ4PreviousYear, healthInsuranceLimitLinear) ==
    [id |-> year,
     year |-> year,
     minimumWageGross |-> minimumWageGross,
     averageWagePrognosis |-> averageWagePrognosis,
     averageWageQ4PreviousYear |-> averageWageQ4PreviousYear,
     retirementRate |-> Rat(1952, 10000),
     disabilityRate |-> Rat(8, 100),
     accidentRate |-> Rat(167, 10000),
     sicknessRate |-> Rat(245, 10000),
     workFundRate |-> Rat(245, 10000),
     solidarityFundRate |-> Rat(245, 10000),
     healthInsuranceRateSkala |-> Rat(9, 100),
     healthInsuranceRateLiniowy |-> Rat(49, 1000),
     healthInsuranceLimitLinear |-> healthInsuranceLimitLinear]

\* the tax_year_configs rows inserted for 2025-2028
SeededTaxYearConfigs ==
    {SeedRow(2025, 4388, 7143, 7000, 11300),
     SeedRow(2026, 4626, 7286, 7000, 11600),
     SeedRow(2027, 4750, 7500, 7286, 11900),
     SeedRow(2028, 4900, 7700, 7500, 12200)}

SeededStore ==
    [scenarios |-> {},
     investments |-> <<>>,
     carDetails |-> {},
     taxYearConfigs |-> SeededTaxYearConfigs]

\* useState initial values of Simulator
MountedSimulator ==
    [step |-> "config", scenarioId |-> undefined, config |-> NoValue, investments |-> <<>>,
     results |-> NoValue]

NoRequest == [pc |-> "idle"]

\* the two workers that can serve POST /api/tax-config at the same time
Workers == {"w1", "w2"}

ServerIdle ==
    /\ db = SeededStore
    /\ ui = MountedSimulator
    /\ response = NoCall
    /\ pending = [w \in Workers |-> NoRequest]

ScenarioConfig ==
    [yearlyRevenueNetto : Revenues,
     yearlyFixedCosts : FixedCosts,
     vatPayer : BOOLEAN,
     vatRateMixed : VatRatesMixed,
     zusType : ZusType,
     carInvestments : {<<>>},
     equipmentInvestments : {<<>>},
     taxYearConfig : TaxYearConfigs]

Init ==
    /\ scenario \in ScenarioConfig
    /\ result = NoCall
    /\ car = DefaultCar
    /\ equipment = DefaultEquipment
    /\ out = NoCall
    /\ contribution = DefaultContribution
    /\ ServerIdle

Edit(s) ==
    /\ scenario' = s
    /\ result' = NoCall
    /\ UNCHANGED <<car, equipment, out, contribution, db, ui, response, pending>>

InvestmentCount == Len(scenario.carInvestments) + Len(scenario.equipmentInvestments)

AddCarInvestment ==
    /\ InvestmentCount < MaxInvestments
    /\ \E c \in ScenarioCars :
          Edit([scenario EXCEPT !.carInvestments = Append(@, c)])

AddEquipmentInvestment ==
    /\ InvestmentCount < MaxInvestments
    /\ \E e \in ScenarioEquipment :
          Edit([scenario EXCEPT !.equipmentInvestments = Append(@, e)])

RemoveCarInvestment ==
    \E i \in 1..Len(scenario.carInvestments) :
        Edit([scenario EXCEPT !.carInvestments = RemoveAt(@, i)])

RemoveEquipmentInvestment ==
    \E i \in 1..Len(scenario.equipmentInvestments) :
        Edit([scenario EXCEPT !.equipmentInvestments = RemoveAt(@, i)])

Call(fn, ret) ==
    /\ result = NoCall
    /\ result' = [fn |-> fn, ret |-> ret]
    /\ UNCHANGED <<scenario, car, equipment, out, contribution, db, ui, response, pending>>

CompareAll == Call("compareAll", compareAll(scenario))

CalculateRyczalt == Call("calculateRyczalt", calculateRyczalt(scenario))

CalculateLiniowy == Call("calculateLiniowy", calculateLiniowy(scenario))

CalculateSkala == Call("calculateSkala", calculateSkala(scenario))

Next ==
    \/ AddCarInvestment
    \/ AddEquipmentInvestment
    \/ RemoveCarInvestment
    \/ RemoveEquipmentInvestment
    \/ CompareAll
    \/ CalculateRyczalt
    \/ CalculateLiniowy
    \/ CalculateSkala

Spec == Init /\ [][Next]_vars

----------------------------------------------------------------------------
(* The per-investment functions called on their own, on every vehicle and  *)
(* equipment input                                                         *)

InitInvestment ==
    /\ scenario = DefaultScenario
    /\ result = NoCall
    /\ car \in CarInvestment
    /\ equipment \in EquipmentInvestment
    /\ out = NoCall
    /\ contribution = DefaultContribution
    /\ ServerIdle

CallInvestment(fn, ret) ==
    /\ out' = [fn |-> fn, ret |-> ret]
    /\ UNCHANGED <<scenario, result, car, equipment, contribution, db, ui, response, pending>>

CalculateCarDepreciation ==
    CallInvestment("calculateCarDepreciation", calculateCarDepreciation(car))

CalculateCarVATBenefit ==
    CallInvestment("calculateCarVATBenefit", Return(calculateCarVATBenefit(car)))

CalculateEquipmentDepreciation ==
    CallInvestment("calculateEquipmentDepreciation",
                   Return(calculateEquipmentDepreciation(equipment)))

NextInvestment ==
    \/ CalculateCarDepreciation
    \/ CalculateCarVATBenefit
    \/ CalculateEquipmentDepreciation

SpecInvestment == InitInvestment /\ [][NextInvestment]_vars

----------------------------------------------------------------------------
(* ContributionCalculator called on its own, on every input                *)

InitContribution ==
    /\ scenario = DefaultScenario
    /\ result = NoCall
    /\ car = DefaultCar
    /\ equipment = DefaultEquipment
    /\ out = NoCall
    /\ contribution \in [input : ContributionInput,
                         config : TaxYearConfig,
                         monthlyIncome : MonthlyIncomes]
    /\ ServerIdle

CallContribution(fn, ret) ==
    /\ out' = [fn |-> fn, ret |-> ret]
    /\ UNCHANGED <<scenario, result, car, equipment, contribution, db, ui, response, pending>>

CalculateSocialSecurity ==
    CallContribution("calculateSocialSecurity",
                     calculateSocialSecurity(contribution.input, contribution.config))

CalculateHealthInsurance ==
    CallContribution("calculateHealthInsurance",
                     calculateHealthInsurance(contribution.input, contribution.config,
                                              Num(contribution.monthlyIncome)))

NextContribution ==
    \/ CalculateSocialSecurity
    \/ CalculateHealthInsurance

SpecContribution == InitContribution /\ [][NextContribution]_vars

----------------------------------------------------------------------------
(* The engine called again on the same scenario with a higher revenue: the *)
(* calculate request carries yearlyRevenueNetto and the scenario is        *)
(* rebuilt from it                                                         *)

RevenueGrid == {0, 50000, 186000, 186001, 350000, 400000}

\* a cash vehicle above the ceiling and equipment bought in month 7
RevenueInvestments ==
    {[carInvestments |-> <<>>, equipmentInvestments |-> <<>>],
     [carInvestments |->
          <<[carPriceNetto |-> 150000, engineType |-> "combustion",
             financingMethod |-> "cash", usageType |-> "mixed",
             leasingInitialPaymentPercent |-> undefined, leasingMonths |-> undefined,
             leasingBuyoutPercent |-> undefined, monthOfPurchase |-> 1]>>,
      equipmentInvestments |-> <<[costNetto |-> 10000, monthOfPurchase |-> 7]>>]}

EngineCall(fn, config) ==
    CASE fn = "compareAll" -> compareAll(config)
      [] fn = "calculateRyczalt" -> calculateRyczalt(config)
      [] fn = "calculateLiniowy" -> calculateLiniowy(config)
      [] fn = "calculateSkala" -> calculateSkala(config)

InitRevenue ==
    /\ \E r \in RevenueGrid, f \in FixedCosts, z \in ZusType, c \in TaxYearConfigs,
          i \in RevenueInvestments :
          scenario = [yearlyRevenueNetto |-> r,
                      yearlyFixedCosts |-> f,
                      vatPayer |-> TRUE,
                      vatRateMixed |-> One,
                      zusType |-> z,
                      carInvestments |-> i.carInvestments,
                      equipmentInvestments |-> i.equipmentInvestments,
                      taxYearConfig |-> c]
    /\ result = NoCall
    /\ car = DefaultCar
    /\ equipment = DefaultEquipment
    /\ out = NoCall
    /\ contribution = DefaultContribution
    /\ ServerIdle

\* the same entry point on the scenario with a higher revenue; out keeps the
\* outcome at the lower revenue
RaiseRevenue ==
    /\ result # NoCall
    /\ \E r \in RevenueGrid :
          /\ r > scenario.yearlyRevenueNetto
          /\ LET s == [scenario EXCEPT !.yearlyRevenueNetto = r]
             IN  /\ scenario' = s
                 /\ result' = [fn |-> result.fn, ret |-> EngineCall(result.fn, s)]
    /\ out' = result
    /\ UNCHANGED <<car, equipment, contribution, db, ui, response, pending>>

NextRevenue ==
    \/ CompareAll
    \/ CalculateRyczalt
    \/ CalculateLiniowy
    \/ CalculateSkala
    \/ RaiseRevenue

SpecRevenue == InitRevenue /\ [][NextRevenue]_vars

----------------------------------------------------------------------------
(* The four entry points called on one scenario in any order, any number   *)
(* of times; out keeps the latest outcome of each entry point              *)

EntryPoints == {"compareAll", "calculateRyczalt", "calculateLiniowy", "calculateSkala"}

InitIndependence ==
    /\ \E r \in Revenues, f \in FixedCosts, z \in {"ulga_na_start", "duzy"},
          c \in TaxYearConfigs,
          cars \in {<<>>} \cup {<<v>> : v \in ScenarioCars},
          eqs \in {<<>>, <<DefaultEquipment>>} :
          scenario = [yearlyRevenueNetto |-> r,
                      yearlyFixedCosts |-> f,
                      vatPayer |-> TRUE,
                      vatRateMixed |-> One,
                      zusType |-> z,
                      carInvestments |-> cars,
                      equipmentInvestments |-> eqs,
                      taxYearConfig |-> c]
    /\ result = NoCall
    /\ car = DefaultCar
    /\ equipment = DefaultEquipment
    /\ out = [fn \in EntryPoints |-> NoCall]
    /\ contribution = DefaultContribution
    /\ ServerIdle

Returned(fn, ret) ==
    /\ result' = [fn |-> fn, ret |-> ret]
    /\ out' = [out EXCEPT ![fn] = ret]
    /\ UNCHANGED <<scenario, car, equipment, contribution, db, ui, response, pending>>

CallAgain(fn) == Returned(fn, EngineCall(fn, scenario))

CompareAllAgain == CallAgain("compareAll")

CalculateRyczaltAgain == CallAgain("calculateRyczalt")

CalculateLiniowyAgain == CallAgain("calculateLiniowy")

CalculateSkalaAgain == CallAgain("calculateSkala")

NextIndependence ==
    \/ CompareAllAgain
    \/ CalculateRyczaltAgain
    \/ CalculateLiniowyAgain
    \/ CalculateSkalaAgain

SpecIndependence == InitIndependence /\ [][NextIndependence]_vars

----------------------------------------------------------------------------
(* The server: the endpoints of POST /api/simulation/create,               *)
(* /api/simulation/:id/investment, /api/simulation/:id/calculate and       *)
(* /api/tax-config.  Each takes the store and the request and yields the   *)
(* store it leaves and the response it sends.                              *)

StoredIds(store) ==
    {s.id : s \in store.scenarios}
        \cup {store.investments[i].id : i \in 1..Len(store.investments)}
        \cup {r.id : r \in store.taxYearConfigs}

\* uuidv4(): an id no stored row carries
uuidv4(store) ==
    CHOOSE n \in 1..(Cardinality(StoredIds(store)) + 1) : n \notin StoredIds(store)

Respond(endpoint, status, body) == [endpoint |-> endpoint, status |-> status, body |-> body]

\* x || 0 on an optional number
OrZero(x) == IF Falsy(x) THEN 0 ELSE x

CreateSimulation(store, body) ==
    LET scenarioId == uuidv4(store)
    IN  [store |-> [store EXCEPT !.scenarios = @ \cup
                        {[id |-> scenarioId,
                          yearlyRevenueNetto |-> OrZero(body.yearlyRevenueNetto),
                          yearlyFixedCosts |-> OrZero(body.yearlyFixedCosts),
                          vatPayer |-> body.vatPayer,
                          vatRateMixed |-> body.vatRateMixed,
                          zusType |-> body.zusType,
                          currentTaxationForm |-> body.currentTaxationForm]}],
         response |-> Respond("create", 200, [id |-> scenarioId])]

\* the request carried no carDetails
NoCarDetails == [engineType |-> "none"]

CarTypes == {"car_leasing", "car_cash"}

\* the car_details row written for investmentId
CarDetailRow(investmentId, carDetails) ==
    [investmentId |-> investmentId,
     engineType |-> carDetails.engineType,
     financingMethod |-> carDetails.financingMethod,
     carPriceNetto |-> carDetails.carPriceNetto,
     leasingInitialPaymentPercent |-> carDetails.leasingInitialPaymentPercent,
     leasingMonths |-> carDetails.leasingMonths,
     leasingBuyoutPercent |-> carDetails.leasingBuyoutPercent,
     usageType |-> carDetails.usageType]

\* the investments row is written first, the car_details row only for a
\* vehicle type whose request carries carDetails; scenario_id references
\* scenarios(id), so a row for an unknown scenario is refused
AddInvestment(store, scenarioId, body) ==
    LET investmentId == uuidv4(store)
        investment == [id |-> investmentId,
                       scenarioId |-> scenarioId,
                       costNetto |-> body.costNetto,
                       monthOfPurchase |-> body.monthOfPurchase,
                       type |-> body.type]
    IN  IF scenarioId \notin {s.id : s \in store.scenarios}
        THEN [store |-> store,
              response |-> Respond("investment", 500, [error |-> "Failed to add investment"])]
        ELSE [store |-> [store EXCEPT
                            !.investments = Append(@, investment),
                            !.carDetails =
                                IF body.carDetails # NoCarDetails /\ body.type \in CarTypes
                                THEN @ \cup {CarDetailRow(investmentId, body.carDetails)}
                                ELSE @],
              response |-> Respond("investment", 200, [id |-> investmentId])]

\* x || undefined on a nullable column
ColumnOrUndefined(x) == IF Falsy(x) THEN undefined ELSE x

\* the taxYearConfig object built from a tax_year_configs row: every column
\* but the id
TaxYearConfigOf(configRecord) ==
    [f \in DOMAIN configRecord \ {"id"} |-> configRecord[f]]

\* the vehicle pushed for an investments row and its car_details row
CarInvestmentOf(inv, carDetail) ==
    [carPriceNetto |-> carDetail.carPriceNetto,
     engineType |-> carDetail.engineType,
     financingMethod |-> carDetail.financingMethod,
     usageType |-> carDetail.usageType,
     leasingInitialPaymentPercent |-> ColumnOrUndefined(carDetail.leasingInitialPaymentPercent),
     leasingMonths |-> ColumnOrUndefined(carDetail.leasingMonths),
     leasingBuyoutPercent |-> ColumnOrUndefined(carDetail.leasingBuyoutPercent),
     monthOfPurchase |-> inv.monthOfPurchase]

\* the loop over investmentsList, vehicles: a vehicle row without a
\* car_details row pushes nothing
RECURSIVE BuildCarInvestments(_, _)
BuildCarInvestments(store, investmentsList) ==
    IF investmentsList = <<>>
    THEN <<>>
    ELSE LET inv == Head(investmentsList)
             carDetail == {d \in store.carDetails : d.investmentId = inv.id}
         IN  (IF inv.type \in CarTypes /\ carDetail # {}
              THEN <<CarInvestmentOf(inv, CHOOSE d \in carDetail : TRUE)>>
              ELSE <<>>)
             \o BuildCarInvestments(store, Tail(investmentsList))

\* the loop over investmentsList, every other type
RECURSIVE BuildEquipmentInvestments(_)
BuildEquipmentInvestments(investmentsList) ==
    IF investmentsList = <<>>
    THEN <<>>
    ELSE LET inv == Head(investmentsList)
         IN  (IF inv.type \notin CarTypes
              THEN <<[costNetto |-> inv.costNetto, monthOfPurchase |-> inv.monthOfPurchase]>>
              ELSE <<>>)
             \o BuildEquipmentInvestments(Tail(investmentsList))

InvestmentsOfScenario(store, scenarioId) ==
    LET OfScenario(inv) == inv.scenarioId = scenarioId
    IN  SelectSeq(store.investments, OfScenario)

\* the config object handed to TaxCalculator.compareAll; create writes
\* vat_payer and vat_rate_mixed on every row, so vatPayer ?? true and
\* vatRateMixed ?? 1.0 yield the stored values
EngineConfig(store, scenarioRow, body) ==
    LET selectedTaxYear == IF Falsy(body.selectedTaxYear) THEN 2026 ELSE body.selectedTaxYear
        configRecord == {r \in store.taxYearConfigs : r.year = selectedTaxYear}
        investmentsList == InvestmentsOfScenario(store, scenarioRow.id)
    IN  [yearlyRevenueNetto |-> body.yearlyRevenueNetto,
         yearlyFixedCosts |-> body.yearlyFixedCosts,
         vatPayer |-> scenarioRow.vatPayer,
         vatRateMixed |-> scenarioRow.vatRateMixed,
         zusType |-> scenarioRow.zusType,
         carInvestments |-> BuildCarInvestments(store, investmentsList),
         equipmentInvestments |-> BuildEquipmentInvestments(investmentsList),
         taxYearConfig |-> IF configRecord # {}
                           THEN TaxYearConfigOf(CHOOSE r \in configRecord : TRUE)
                           ELSE NoConfig]

\* c.json(results), or the catch block when compareAll throws
CalculateResponse(results) ==
    IF results.ok
    THEN Respond("calculate", 200, results.val)
    ELSE Respond("calculate", 500, [error |-> "Failed to calculate taxes"])

Calculate(store, scenarioId, body) ==
    LET scenarioRow == {s \in store.scenarios : s.id = scenarioId}
    IN  IF scenarioRow = {}
        THEN Respond("calculate", 404, [error |-> "Scenario not found"])
        ELSE CalculateResponse(
                 compareAll(EngineConfig(store, CHOOSE s \in scenarioRow : TRUE, body)))

\* the tax_year_configs row with the year of the request, undefined if none
ExistingTaxYearConfig(store, year) ==
    LET existing == {r \in store.taxYearConfigs : r.year = year}
    IN  IF existing = {} THEN undefined ELSE (CHOOSE r \in existing : TRUE).id

\* x ?? d on an optional number
Nullish(x, d) == IF x = undefined THEN d ELSE x

\* x ?? d on an optional rate
NullishRate(x, d) == IF x = NoValue THEN d ELSE x

\* the row the create branch inserts
NewTaxYearConfig(id, body) ==
    [id |-> id,
     year |-> body.year,
     minimumWageGross |-> body.minimumWageGross,
     averageWagePrognosis |-> body.averageWagePrognosis,
     averageWageQ4PreviousYear |-> body.averageWageQ4PreviousYear,
     retirementRate |-> NullishRate(body.retirementRate, Rat(1952, 10000)),
     disabilityRate |-> NullishRate(body.disabilityRate, Rat(8, 100)),
     accidentRate |-> NullishRate(body.accidentRate, Rat(167, 10000)),
     sicknessRate |-> NullishRate(body.sicknessRate, Rat(245, 10000)),
     workFundRate |-> NullishRate(body.workFundRate, Rat(245, 10000)),
     solidarityFundRate |-> NullishRate(body.solidarityFundRate, Rat(245, 10000)),
     healthInsuranceRateSkala |-> NullishRate(body.healthInsuranceRateSkala, Rat(9, 100)),
     healthInsuranceRateLiniowy |-> NullishRate(body.healthInsuranceRateLiniowy, Rat(49, 1000)),
     healthInsuranceLimitLinear |-> Nullish(body.healthInsuranceLimitLinear, 11600)]

\* the row the update branch leaves: every column of the request but the
\* id and the year
UpdatedTaxYearConfig(row, body) ==
    [f \in DOMAIN row |-> IF f \in {"id", "year"} THEN row[f] ELSE body[f]]

\* INSERT INTO tax_year_configs on a table without the UNIQUE constraint on
\* year
InsertTaxYearConfig_NoUniqueYear(store, row) ==
    [ok |-> TRUE, store |-> [store EXCEPT !.taxYearConfigs = @ \cup {row}]]

\* INSERT INTO tax_year_configs: year is UNIQUE, so a second row for a
\* stored year is refused and the statement throws
InsertTaxYearConfig(store, row) ==
    IF \E r \in store.taxYearConfigs : r.year = row.year
    THEN [ok |-> FALSE, store |-> store]
    ELSE [ok |-> TRUE, store |-> [store EXCEPT !.taxYearConfigs = @ \cup {row}]]

\* the outcome of the create branch, from the outcome of its insert
CreatedTaxConfig(id, inserted) ==
    [store |-> inserted.store,
     response |-> IF inserted.ok
                  THEN Respond("tax-config", 200, [id |-> id, message |-> "Config created"])
                  ELSE Respond("tax-config", 500, [error |-> "Failed to save tax config"])]

\* the second half of POST /api/tax-config, after existing was selected
SaveTaxConfig(store, body, existing) ==
    IF existing # undefined
    THEN [store |-> [store EXCEPT !.taxYearConfigs =
                        {IF r.year = body.year THEN UpdatedTaxYearConfig(r, body) ELSE r :
                            r \in @}],
          response |-> Respond("tax-config", 200,
                               [id |-> existing, message |-> "Config updated"])]
    ELSE CreatedTaxConfig(uuidv4(store),
                          InsertTaxYearConfig(store, NewTaxYearConfig(uuidv4(store), body)))

----------------------------------------------------------------------------
(* The endpoints called by any client on one created scenario: investments *)
(* are posted with and without carDetails, and the comparison is asked for *)
(* stored and unstored tax years and for an unknown scenario.              *)

\* the initial state of ConfigurationForm
DefaultConfigurationData ==
    [yearlyRevenueNetto |-> 180000,
     yearlyFixedCosts |-> 36000,
     vatPayer |-> TRUE,
     vatRateMixed |-> One,
     zusType |-> "maly_plus",
     currentTaxationForm |-> "liniowy",
     selectedTaxYear |-> 2026]

\* the request handleAddCar sends for carData
CarInvestmentBody(carData) ==
    [costNetto |-> carData.carPriceNetto,
     monthOfPurchase |-> carData.monthOfPurchase,
     type |-> IF carData.financingMethod = "leasing" THEN "car_leasing" ELSE "car_cash",
     carDetails |-> carData]

\* the request handleAddEquipment sends for equipmentData
EquipmentInvestmentBody(equipmentData) ==
    [costNetto |-> equipmentData.costNetto,
     monthOfPurchase |-> equipmentData.monthOfPurchase,
     type |-> "equipment",
     carDetails |-> NoCarDetails]

\* the form's initial lease, the same lease with the down-payment slider at
\* 0%, and a cash purchase
ServerCars ==
    {DefaultCar,
     [DefaultCar EXCEPT !.leasingInitialPaymentPercent = 0],
     [DefaultCar EXCEPT !.financingMethod = "cash", !.leasingInitialPaymentPercent = undefined,
                        !.leasingMonths = undefined, !.leasingBuyoutPercent = undefined]}

\* what a client posts: what the simulator sends, and a vehicle type
\* without carDetails
InvestmentBodies ==
    {CarInvestmentBody(c) : c \in ServerCars}
        \cup {EquipmentInvestmentBody(DefaultEquipment)}
        \cup {[CarInvestmentBody(DefaultCar) EXCEPT !.carDetails = NoCarDetails]}

CalculateBodies ==
    [yearlyRevenueNetto : {180000},
     yearlyFixedCosts : {36000},
     selectedTaxYear : {undefined, 2025, 2030}]

InitServer ==
    /\ scenario = DefaultScenario
    /\ result = NoCall
    /\ car = DefaultCar
    /\ equipment = DefaultEquipment
    /\ out = NoCall
    /\ contribution = DefaultContribution
    /\ db = CreateSimulation(SeededStore, DefaultConfigurationData).store
    /\ ui = MountedSimulator
    /\ response = NoCall
    /\ pending = [w \in Workers |-> NoRequest]

\* an exchange: the request with the response sent for it
Exchange(scenarioId, body, sent) ==
    [scenarioId |-> scenarioId,
     request |-> body,
     endpoint |-> sent.endpoint,
     status |-> sent.status,
     body |-> sent.body]

Served(scenarioId, body, served) ==
    /\ db' = served.store
    /\ response' = Exchange(scenarioId, body, served.response)
    /\ UNCHANGED <<scenario, result, car, equipment, out, contribution, ui, pending>>

PostInvestment ==
    /\ Len(db.investments) < MaxInvestments
    /\ \E scenarioId \in {s.id : s \in db.scenarios} \cup {0} :
          \E body \in InvestmentBodies :
              Served(scenarioId, body, AddInvestment(db, scenarioId, body))

PostCalculate ==
    \E scenarioId \in {s.id : s \in db.scenarios} \cup {0} :
        \E body \in CalculateBodies :
            Served(scenarioId, body,
                   [store |-> db, response |-> Calculate(db, scenarioId, body)])

NextServer ==
    \/ PostInvestment
    \/ PostCalculate

SpecServer == InitServer /\ [][NextServer]_vars

----------------------------------------------------------------------------
(* The simulator page on one scenario: the configuration form creates the  *)
(* scenario, investments are added through the two forms and removed from  *)
(* the list, and the comparison is asked for and left again.               *)

\* the vehicles entered in CarInvestmentForm: its initial lease and a cash
\* purchase of the same car
SimulatorCars ==
    {DefaultCar,
     [DefaultCar EXCEPT !.financingMethod = "cash", !.leasingInitialPaymentPercent = undefined,
                        !.leasingMonths = undefined, !.leasingBuyoutPercent = undefined]}

InitSimulator ==
    /\ scenario = DefaultScenario
    /\ result = NoCall
    /\ car = DefaultCar
    /\ equipment = DefaultEquipment
    /\ out = NoCall
    /\ contribution = DefaultContribution
    /\ ServerIdle

\* a handler's fetch and the state it sets from the response
Fetched(scenarioId, body, served, state) ==
    /\ db' = served.store
    /\ response' = Exchange(scenarioId, body, served.response)
    /\ ui' = state
    /\ UNCHANGED <<scenario, result, car, equipment, out, contribution, pending>>

\* data.id of a response: undefined on an error body
IdOf(sent) == IF sent.status = 200 THEN sent.body.id ELSE undefined

ConfigSubmitted(configData, served) ==
    Fetched(undefined, configData, served,
            [ui EXCEPT !.scenarioId = IdOf(served.response),
                       !.config = configData,
                       !.step = "investments"])

HandleConfigSubmit ==
    /\ ui.step = "config"
    /\ ConfigSubmitted(DefaultConfigurationData,
                       CreateSimulation(db, DefaultConfigurationData))

InvestmentAdded(body, served, type, data) ==
    Fetched(ui.scenarioId, body, served,
            [ui EXCEPT !.investments =
                Append(@, [id |-> IdOf(served.response), type |-> type, data |-> data])])

HandleAddCar ==
    /\ ui.step = "investments"
    /\ ui.scenarioId # undefined
    /\ Len(db.investments) < MaxInvestments
    /\ \E carData \in SimulatorCars :
          InvestmentAdded(CarInvestmentBody(carData),
                          AddInvestment(db, ui.scenarioId, CarInvestmentBody(carData)),
                          "car", carData)

HandleAddEquipment ==
    /\ ui.step = "investments"
    /\ ui.scenarioId # undefined
    /\ Len(db.investments) < MaxInvestments
    /\ InvestmentAdded(EquipmentInvestmentBody(DefaultEquipment),
                       AddInvestment(db, ui.scenarioId,
                                     EquipmentInvestmentBody(DefaultEquipment)),
                       "equipment", DefaultEquipment)

\* investments.filter((inv) => inv.id !== id): the page sends no request
RemoveInvestment ==
    /\ ui.step = "investments"
    /\ \E i \in 1..Len(ui.investments) :
          LET Kept(inv) == inv.id # ui.investments[i].id
          IN  ui' = [ui EXCEPT !.investments = SelectSeq(@, Kept)]
    /\ UNCHANGED <<scenario, result, car, equipment, out, contribution, db, response, pending>>

Calculated(body, sent) ==
    Fetched(ui.scenarioId, body, [store |-> db, response |-> sent],
            [ui EXCEPT !.results = sent.body, !.step = "results"])

\* the request names revenue and costs only
HandleCalculate ==
    /\ ui.step = "investments"
    /\ ui.scenarioId # undefined
    /\ ui.config # NoValue
    /\ Calculated([yearlyRevenueNetto |-> ui.config.yearlyRevenueNetto,
                   yearlyFixedCosts |-> ui.config.yearlyFixedCosts,
                   selectedTaxYear |-> undefined],
                  Calculate(db, ui.scenarioId,
                            [yearlyRevenueNetto |-> ui.config.yearlyRevenueNetto,
                             yearlyFixedCosts |-> ui.config.yearlyFixedCosts,
                             selectedTaxYear |-> undefined]))

\* the button of the results step that returns to the investments step
BackToInvestments ==
    /\ ui.step = "results"
    /\ ui' = [ui EXCEPT !.step = "investments"]
    /\ UNCHANGED <<scenario, result, car, equipment, out, contribution, db, response, pending>>

NextSimulator ==
    \/ HandleConfigSubmit
    \/ HandleAddCar
    \/ HandleAddEquipment
    \/ RemoveInvestment
    \/ HandleCalculate
    \/ BackToInvestments

SpecSimulator == InitSimulator /\ [][NextSimulator]_vars

----------------------------------------------------------------------------
(* POST /api/tax-config served by two workers at once: a request selects   *)
(* the row of its year, and writes after any step of the other worker.     *)

\* what the tax-config page sends: every column, for a seeded year and for
\* a year that is not stored
TaxConfigBodies ==
    {[TaxYearConfigOf(SeedRow(year, minimumWageGross, 7286, 7000, 11600)) EXCEPT !.year = year] :
        year \in {2026, 2030}, minimumWageGross \in {5000, 5100}}

InitTaxConfig ==
    /\ scenario = DefaultScenario
    /\ result = NoCall
    /\ car = DefaultCar
    /\ equipment = DefaultEquipment
    /\ out = NoCall
    /\ contribution = DefaultContribution
    /\ ServerIdle

\* const existing = await db.select()...get()
SelectExisting ==
    \E w \in Workers :
        /\ pending[w] = NoRequest
        /\ \E body \in TaxConfigBodies :
              pending' = [pending EXCEPT ![w] =
                             [pc |-> "selected",
                              body |-> body,
                              existing |-> ExistingTaxYearConfig(db, body.year)]]
        /\ UNCHANGED <<scenario, result, car, equipment, out, contribution, db, ui, response>>

Saved(w, served) ==
    /\ db' = served.store
    /\ response' = Exchange(undefined, pending[w].body, served.response)
    /\ pending' = [pending EXCEPT ![w] = NoRequest]
    /\ UNCHANGED <<scenario, result, car, equipment, out, contribution, ui>>

\* the update or the insert, and the response
SaveSelected ==
    \E w \in Workers :
        /\ pending[w] # NoRequest
        /\ Saved(w, SaveTaxConfig(db, pending[w].body, pending[w].existing))

NextTaxConfig ==
    \/ SelectExisting
    \/ SaveSelected

SpecTaxConfig == InitTaxConfig /\ [][NextTaxConfig]_vars

----------------------------------------------------------------------------
(* Claims about the per-investment functions (SpecInvestment) *)

\* the ceilings as the specification states them
StatedCeiling(engineType) ==
    CASE engineType = "combustion" -> 100000
      [] engineType = "hybrid_plugin" -> 150000
      [] engineType = "electric" -> 225000

IntMin(a, b) == IF a <= b THEN a ELSE b

DepreciationCalled == out.fn = "calculateCarDepreciation"

\* the same vehicle with other lease fields
WithLeaseFields(c, ip, lm, bp) ==
    [c EXCEPT !.leasingInitialPaymentPercent = ip, !.leasingMonths = lm,
              !.leasingBuyoutPercent = bp]

\* C1: for a cash-financed vehicle calculateCarDepreciation returns
\* min(price, ceiling) * 20% * (13 - m) / 12 with the ceilings 100,000 /
\* 150,000 / 225,000; the value is the same for every choice of the lease
\* fields and no error is raised when they are absent.
C1_CashDepreciation ==
    (DepreciationCalled /\ car.financingMethod = "cash") =>
        /\ out.ret.ok
        /\ out.ret.val =
              RDiv(RMul(RMul(Num(IntMin(car.carPriceNetto, StatedCeiling(car.engineType))),
                             Rat(20, 100)),
                        Num(13 - car.monthOfPurchase)), Num(12))
        /\ \A ip \in LeasingInitialPaymentPercents, lm \in LeasingMonthsValues,
              bp \in LeasingBuyoutPercents :
              calculateCarDepreciation(WithLeaseFields(car, ip, lm, bp)) = out.ret

\* a combustion vehicle priced 150,000 bought for cash in month 1 with no
\* lease fields deducts 20,000
C1_Witness ==
    /\ DepreciationCalled
    /\ car.financingMethod = "cash"
    /\ car.engineType = "combustion"
    /\ car.carPriceNetto = 150000
    /\ car.monthOfPurchase = 1
    /\ car.leasingMonths = undefined
    /\ car.leasingInitialPaymentPercent = undefined
    /\ car.leasingBuyoutPercent = undefined
    /\ out.ret = Return(Num(20000))

\* the lease deduction as the specification composes it
StatedLeaseDeduction(c) ==
    LET price == Num(c.carPriceNetto)
        downPayment == RMul(price, Rat(c.leasingInitialPaymentPercent, 100))
        capital == RSub(RSub(price, downPayment), RMul(price, Rat(c.leasingBuyoutPercent, 100)))
        ratio == IF c.carPriceNetto = 0
                 THEN One
                 ELSE RMin(One, Rat(StatedCeiling(c.engineType), c.carPriceNetto))
        months == IntMin(13 - c.monthOfPurchase, c.leasingMonths)
    IN  RAdd(RAdd(RMul(downPayment, ratio),
                  RMul(RMul(RDiv(capital, Num(c.leasingMonths)), Num(months)), ratio)),
             RDiv(RMul(RMul(capital, Rat(5, 100)), Num(months)), Num(12)))

LeaseParametersPresent(c) ==
    /\ c.leasingMonths # undefined
    /\ c.leasingInitialPaymentPercent # undefined
    /\ c.leasingBuyoutPercent # undefined

\* C2: for a lease-financed vehicle with all three lease parameters present
\* calculateCarDepreciation returns down payment * ratio + capital / term *
\* months * ratio + capital * 5% * months / 12, the interest term not
\* multiplied by ratio.
C2_LeaseFormula ==
    (DepreciationCalled /\ car.financingMethod = "leasing" /\ LeaseParametersPresent(car)) =>
        out.ret = Return(StatedLeaseDeduction(car))

\* C3: when the price exceeds the ceiling of the engine class, a cash
\* purchase deducts at most ceiling * 20% * months / 12, and the capital
\* instalments of a lease deduct at most ceiling * (capital portion / price).
C3_CeilingRespected ==
    (DepreciationCalled /\ out.ret.ok /\ car.carPriceNetto > StatedCeiling(car.engineType)) =>
        IF car.financingMethod = "cash"
        THEN RLe(out.ret.val,
                 RDiv(RMul(RMul(Num(StatedCeiling(car.engineType)), Rat(20, 100)),
                           Num(13 - car.monthOfPurchase)), Num(12)))
        ELSE RLe(LeasingParts(car).yearlyCapitalDeductible,
                 RMul(Num(StatedCeiling(car.engineType)),
                      RDiv(RSub(RSub(Num(car.carPriceNetto),
                                     RMul(Num(car.carPriceNetto),
                                          Rat(car.leasingInitialPaymentPercent, 100))),
                                RMul(Num(car.carPriceNetto),
                                     Rat(car.leasingBuyoutPercent, 100))),
                           Num(car.carPriceNetto))))

\* an electric vehicle priced 300,000 on a 3-month lease from month 1 deducts
\* the whole capped capital: 225,000 * 89% = 200,250
C3_Witness ==
    /\ DepreciationCalled
    /\ out.ret.ok
    /\ car.financingMethod = "leasing"
    /\ car.engineType = "electric"
    /\ car.carPriceNetto = 300000
    /\ car.leasingMonths = 3
    /\ car.monthOfPurchase = 1
    /\ LeasingParts(car).yearlyCapitalDeductible = Num(200250)

\* C6: calculateEquipmentDepreciation returns cost * 30% * (13 - m) / 12
\* with no ceiling: cost 10,000 gives 3,000 for month 1 and 1,500 for
\* month 7.
C6_EquipmentDepreciation ==
    out.fn = "calculateEquipmentDepreciation" =>
        /\ out.ret =
              Return(RDiv(RMul(RMul(Num(equipment.costNetto), Rat(30, 100)),
                               Num(13 - equipment.monthOfPurchase)), Num(12)))
        /\ (equipment.costNetto = 10000 /\ equipment.monthOfPurchase = 1) =>
              out.ret.val = Num(3000)
        /\ (equipment.costNetto = 10000 /\ equipment.monthOfPurchase = 7) =>
              out.ret.val = Num(1500)

C6_Witness ==
    /\ out.fn = "calculateEquipmentDepreciation"
    /\ equipment.costNetto = 10000
    /\ equipment.monthOfPurchase = 7
    /\ out.ret = Return(Num(1500))

----------------------------------------------------------------------------
(* Claims about the regime calculators (Spec) *)

\* the TaxResults the last call returned
Results ==
    IF result.fn = "none" \/ ~result.ret.ok
    THEN {}
    ELSE IF result.fn = "compareAll"
    THEN {result.ret.val.ryczalt, result.ret.val.liniowy, result.ret.val.skala}
    ELSE {result.ret.val}

ResultsOf(form) == {r \in Results : r.taxationForm = form}

\* a lease-financed vehicle of the scenario lacks one of its parameters
LeaseParameterAbsent ==
    \E i \in 1..Len(scenario.carInvestments) :
        /\ scenario.carInvestments[i].financingMethod = "leasing"
        /\ ~LeaseParametersPresent(scenario.carInvestments[i])

\* C4: when a lease-financed vehicle of the scenario lacks the term, the
\* down payment or the buyout, compareAll raises the missing-lease-parameters
\* error and returns no ComparisonResult, neither partial nor with the
\* vehicle counted as zero.
C4_MissingLeaseAborts ==
    (result.fn = "compareAll" /\ LeaseParameterAbsent) =>
        /\ ~result.ret.ok
        /\ result.ret.val = NoValue
        /\ result.ret.error = "Leasing parameters required for leasing financing method"

C4_Witness ==
    /\ result.fn = "compareAll"
    /\ LeaseParameterAbsent
    /\ Len(scenario.carInvestments) = 2
    /\ ~result.ret.ok

RECURSIVE VatWeight(_)
\* twice the VAT-recoverable share of the prices: 2 for full-business use,
\* 1 for mixed use
VatWeight(cars) ==
    IF Len(cars) = 0
    THEN 0
    ELSE VatWeight(Tail(cars))
         + Head(cars).carPriceNetto * (IF Head(cars).usageType = "full_business" THEN 2 ELSE 1)

RECURSIVE CostTotal(_)
CostTotal(eqs) == IF Len(eqs) = 0 THEN 0 ELSE CostTotal(Tail(eqs)) + Head(eqs).costNetto

\* sum over vehicles of price * 23% * (1 or 0.5) * vatRateMixed plus sum over
\* equipment of cost * 23% * vatRateMixed
StatedVatBenefit ==
    IF scenario.vatPayer
    THEN RMul(Rat(23 * (VatWeight(scenario.carInvestments)
                        + 2 * CostTotal(scenario.equipmentInvestments)), 200),
              scenario.vatRateMixed)
    ELSE Zero

\* C5: in every regime result breakdown.vatBenefit is 0 when the scenario
\* is not VAT-registered and otherwise the sum over vehicles of price * 23% *
\* (1 full-business, 0.5 mixed) * vatRateMixed plus the sum over equipment of
\* cost * 23% * vatRateMixed, whatever the financing, engine class or regime.
C5_VatBenefit ==
    \A r \in Results : r.breakdown.vatBenefit = StatedVatBenefit

\* a mixed-use vehicle of 150,000 and equipment of 10,000 at vatRateMixed 0.5
\* recover (17,250 + 2,300) / 2 = 9,775 in all three regimes
C5_Witness ==
    /\ result.fn = "compareAll"
    /\ result.ret.ok
    /\ scenario.vatPayer
    /\ scenario.vatRateMixed = Rat(1, 2)
    /\ Len(scenario.carInvestments) = 1
    /\ scenario.carInvestments[1].usageType = "mixed"
    /\ Len(scenario.equipmentInvestments) = 1
    /\ \A r \in Results : r.breakdown.vatBenefit = Num(9775)

\* the scenarios that differ from the current one in investments or fixed costs
OtherCostsAndInvestments ==
    {[scenario EXCEPT !.yearlyFixedCosts = k] : k \in FixedCosts}
    \cup {[scenario EXCEPT !.carInvestments = <<c>>] : c \in ScenarioCars}
    \cup {[scenario EXCEPT !.equipmentInvestments = <<e>>] : e \in ScenarioEquipment}
    \cup {[scenario EXCEPT !.carInvestments = <<>>, !.equipmentInvestments = <<>>]}

\* C7: the flat-rate result has incomeTax = grossRevenue * 12%, taxableIncome
\* = grossRevenue, totalCosts = 0 and both depreciation deductions 0, and
\* other investments or fixed costs give the same incomeTax and taxableIncome.
C7_RyczaltIgnoresCosts ==
    \A r \in ResultsOf("ryczalt") :
        /\ r.incomeTax = RMul(Num(scenario.yearlyRevenueNetto), Rat(12, 100))
        /\ r.taxableIncome = Num(scenario.yearlyRevenueNetto)
        /\ r.grossRevenue = Num(scenario.yearlyRevenueNetto)
        /\ r.totalCosts = Zero
        /\ r.breakdown.carDepreciationDeduction = Zero
        /\ r.breakdown.equipmentDepreciationDeduction = Zero
        /\ \A other \in OtherCostsAndInvestments :
              /\ calculateRyczalt(other).val.incomeTax = r.incomeTax
              /\ calculateRyczalt(other).val.taxableIncome = r.taxableIncome

\* revenue 180,000 with fixed costs 200,000, a vehicle and equipment: the
\* flat-rate tax is still 21,600
C7_Witness ==
    /\ result.fn = "calculateRyczalt"
    /\ scenario.yearlyRevenueNetto = 180000
    /\ scenario.yearlyFixedCosts = 200000
    /\ Len(scenario.carInvestments) = 1
    /\ Len(scenario.equipmentInvestments) = 1
    /\ result.ret.val.incomeTax = Num(21600)

\* the monthly amount of the ContributionCalculator's flat-rate formula for
\* the scenario's rate table and yearly revenue
ContributionHealthRyczalt ==
    calculateHealthInsurance(
        [taxationForm |-> "ryczalt", yearlyRevenueToDate |-> scenario.yearlyRevenueNetto],
        scenario.taxYearConfig, Zero).amount

\* C8 as stated: the flat-rate healthInsurance is the ContributionEngine's
\* flat-rate amount, prior-year-Q4 average wage * 9% * multiplier tiered by
\* the yearly revenue.
C8_ContributionEngineHealth ==
    \A r \in ResultsOf("ryczalt") :
        scenario.taxYearConfig # NoConfig => r.healthInsurance = ContributionHealthRyczalt

\* C8 amended: the flat-rate healthInsurance is the fixed amount 6,000 for
\* every scenario, whatever the rate table and the yearly revenue; the
\* ContributionEngine's flat-rate formula is not used.
C8_FixedHealth ==
    \A r \in ResultsOf("ryczalt") : r.healthInsurance = Num(6000)

\* revenue 400,000 with the 2026 rates: the contribution formula gives
\* 7,000 * 9% * 1.8 = 1,134 a month, the result carries 6,000
C8_Witness ==
    /\ result.fn = "compareAll"
    /\ result.ret.ok
    /\ scenario.taxYearConfig = SeededConfig2026
    /\ scenario.yearlyRevenueNetto = 400000
    /\ ContributionHealthRyczalt = Num(1134)
    /\ result.ret.val.ryczalt.healthInsurance = Num(6000)

\* C9: every TaxResult has netCashInHand = grossRevenue - totalCosts -
\* incomeTax - healthInsurance - zusTotal + vatBenefit, with totalCosts 0 in
\* the flat-rate regime and fixed costs plus both depreciation deductions in
\* the linear and progressive regimes, also when revenue is below the costs.
C9_NetCashIdentity ==
    \A r \in Results :
        /\ r.netCashInHand =
              RAdd(RSub(RSub(RSub(RSub(r.grossRevenue, r.totalCosts), r.incomeTax),
                             r.healthInsurance), r.zusTotal), r.breakdown.vatBenefit)
        /\ r.grossRevenue = Num(scenario.yearlyRevenueNetto)
        /\ r.totalCosts =
              IF r.taxationForm = "ryczalt"
              THEN Zero
              ELSE RAdd(RAdd(Num(scenario.yearlyFixedCosts),
                             r.breakdown.carDepreciationDeduction),
                        r.breakdown.equipmentDepreciationDeduction)

\* revenue 50,000 against fixed costs 200,000 plus depreciation: the linear
\* and progressive results end below zero
C9_Witness ==
    /\ result.fn = "compareAll"
    /\ result.ret.ok
    /\ scenario.yearlyRevenueNetto = 50000
    /\ scenario.yearlyFixedCosts = 200000
    /\ Len(scenario.carInvestments) = 1
    /\ Len(scenario.equipmentInvestments) = 1
    /\ RLt(result.ret.val.liniowy.netCashInHand, Zero)
    /\ RLt(result.ret.val.skala.netCashInHand, Zero)
    /\ RLt(Zero, result.ret.val.ryczalt.netCashInHand)

\* the depreciation of the scenario's vehicles and equipment, investment by
\* investment
StatedCarDepreciation ==
    RSum([i \in 1..Len(scenario.carInvestments) |->
             calculateCarDepreciation(scenario.carInvestments[i]).val])

StatedEquipmentDepreciation ==
    RSum([i \in 1..Len(scenario.equipmentInvestments) |->
             calculateEquipmentDepreciation(scenario.equipmentInvestments[i])])

\* C10: the linear result has totalCosts = yearlyFixedCosts + sum of vehicle
\* depreciation + sum of equipment depreciation, taxableIncome = max(0,
\* grossRevenue - totalCosts) and incomeTax = taxableIncome * 19%; the
\* progressive result of the same scenario reports the same totalCosts and
\* depreciation deductions.
C10_LinearCosts ==
    /\ \A r \in ResultsOf("liniowy") :
          /\ r.breakdown.carDepreciationDeduction = StatedCarDepreciation
          /\ r.breakdown.equipmentDepreciationDeduction = StatedEquipmentDepreciation
          /\ r.totalCosts =
                RAdd(RAdd(Num(scenario.yearlyFixedCosts), StatedCarDepreciation),
                     StatedEquipmentDepreciation)
          /\ r.taxableIncome =
                RMax(Zero, RSub(Num(scenario.yearlyRevenueNetto), r.totalCosts))
          /\ r.incomeTax = RMul(r.taxableIncome, Rat(19, 100))
    /\ \A r \in ResultsOf("skala") :
          /\ r.breakdown.carDepreciationDeduction = StatedCarDepreciation
          /\ r.breakdown.equipmentDepreciationDeduction = StatedEquipmentDepreciation
          /\ r.totalCosts =
                RAdd(RAdd(Num(scenario.yearlyFixedCosts), StatedCarDepreciation),
                     StatedEquipmentDepreciation)

\* revenue 180,000, fixed costs 36,000, the cash vehicle (20,000) and
\* equipment bought in month 7 (1,500): totalCosts 57,500, taxableIncome
\* 122,500, incomeTax 23,275
C10_Witness ==
    /\ result.fn = "compareAll"
    /\ result.ret.ok
    /\ scenario.yearlyRevenueNetto = 180000
    /\ scenario.yearlyFixedCosts = 36000
    /\ Len(scenario.carInvestments) = 1
    /\ scenario.carInvestments[1].financingMethod = "cash"
    /\ scenario.equipmentInvestments = <<[costNetto |-> 10000, monthOfPurchase |-> 7]>>
    /\ result.ret.val.liniowy.totalCosts = Num(57500)
    /\ result.ret.val.liniowy.taxableIncome = Num(122500)
    /\ result.ret.val.liniowy.incomeTax = Num(23275)
    /\ result.ret.val.skala.totalCosts = Num(57500)

\* the linear health rate and the annual ceiling in force for the scenario:
\* those of its RateConfig, the built-in 2026 defaults when it has none
StatedLinearHealthRate ==
    IF scenario.taxYearConfig = NoConfig
    THEN Rat(49, 1000)
    ELSE scenario.taxYearConfig.healthInsuranceRateLiniowy

StatedLinearHealthCeiling ==
    IF scenario.taxYearConfig = NoConfig
    THEN Num(11000)
    ELSE Num(scenario.taxYearConfig.healthInsuranceLimitLinear)

----------------------------------------------------------------------------
(* Claims about the engine across revenues (SpecRevenue) *)

\* the TaxResults returned at the lower revenue, before the last RaiseRevenue
PreviousResults ==
    IF out.fn = "none" \/ ~out.ret.ok
    THEN {}
    ELSE IF out.fn = "compareAll"
    THEN {out.ret.val.ryczalt, out.ret.val.liniowy, out.ret.val.skala}
    ELSE {out.ret.val}

PreviousResultsOf(form) == {r \in PreviousResults : r.taxationForm = form}

\* the two-bracket tax as the specification states it
StatedScaleTax(taxable) ==
    IF RLe(taxable, Num(120000))
    THEN RMul(taxable, Rat(12, 100))
    ELSE RAdd(RMul(Num(120000), Rat(12, 100)),
              RMul(RSub(taxable, Num(120000)), Rat(32, 100)))

\* C12: in the progressive regime taxableIncome = max(0, max(0, grossRevenue
\* - totalCosts) - 30,000) and incomeTax is 12% of it up to 120,000, else
\* 120,000 * 12% + 32% of the excess; the tax has no jump at 120,000 (both
\* formulas give 14,400 there, and between two revenues the tax rises by at
\* most 32% of the rise of taxableIncome) and it is non-decreasing in
\* taxableIncome.
C12_ProgressiveTax ==
    /\ \A r \in ResultsOf("skala") :
          /\ r.taxableIncome =
                RMax(Zero, RSub(RMax(Zero, RSub(r.grossRevenue, r.totalCosts)),
                                Num(30000)))
          /\ r.incomeTax = StatedScaleTax(r.taxableIncome)
          /\ r.taxableIncome = Num(120000) =>
                /\ r.incomeTax = Num(14400)
                /\ r.incomeTax =
                      RAdd(RMul(Num(120000), Rat(12, 100)),
                           RMul(RSub(r.taxableIncome, Num(120000)), Rat(32, 100)))
    /\ \A p \in PreviousResultsOf("skala"), r \in ResultsOf("skala") :
          RLe(p.taxableIncome, r.taxableIncome) =>
              /\ RLe(p.incomeTax, r.incomeTax)
              /\ RLe(RSub(r.incomeTax, p.incomeTax),
                     RMul(RSub(r.taxableIncome, p.taxableIncome), Rat(32, 100)))

\* fixed costs 36,000 and no investment: revenue 186,000 gives taxableIncome
\* 120,000 and tax 14,400; one more of revenue gives 120,001 and 14,400.32
C12_Witness ==
    /\ result.fn = "calculateSkala"
    /\ out.fn = "calculateSkala"
    /\ result.ret.ok
    /\ out.ret.ok
    /\ out.ret.val.taxableIncome = Num(120000)
    /\ out.ret.val.incomeTax = Num(14400)
    /\ result.ret.val.taxableIncome = Num(120001)
    /\ result.ret.val.incomeTax = Rat(1440032, 100)

----------------------------------------------------------------------------
(* Further claims about the regime calculators (Spec) *)

\* the scale health rate in force for the scenario
StatedScaleHealthRate ==
    IF scenario.taxYearConfig = NoConfig
    THEN Rat(9, 100)
    ELSE scenario.taxYearConfig.healthInsuranceRateSkala

\* income before the allowance, from the result's own revenue and costs
IncomeBeforeAllowance(r) == RMax(Zero, RSub(r.grossRevenue, r.totalCosts))

\* C13: in the progressive regime healthInsurance = max(0, grossRevenue -
\* totalCosts) * scale health rate (the income before the 30,000 allowance),
\* and it reduces neither taxableIncome (still income - 30,000, floored at
\* 0) nor incomeTax (still the bracket tax of that taxableIncome).
C13_ProgressiveHealth ==
    \A r \in ResultsOf("skala") :
        /\ r.healthInsurance = RMul(IncomeBeforeAllowance(r), StatedScaleHealthRate)
        /\ r.taxableIncome = RMax(Zero, RSub(IncomeBeforeAllowance(r), Num(30000)))
        /\ r.incomeTax = StatedScaleTax(r.taxableIncome)

\* revenue 180,000, fixed costs 36,000, no investment: income 144,000,
\* healthInsurance 12,960, taxableIncome 114,000, incomeTax 13,680
C13_Witness ==
    /\ result.fn = "calculateSkala"
    /\ result.ret.ok
    /\ InvestmentCount = 0
    /\ scenario.yearlyRevenueNetto = 180000
    /\ scenario.yearlyFixedCosts = 36000
    /\ result.ret.val.healthInsurance = Num(12960)
    /\ result.ret.val.taxableIncome = Num(114000)
    /\ result.ret.val.incomeTax = Num(13680)

----------------------------------------------------------------------------
(* Claims about repeated and separate calls (SpecIndependence) *)

Called(fn) == out[fn] # NoCall

RegimeCalls ==
    [ryczalt |-> "calculateRyczalt", liniowy |-> "calculateLiniowy",
     skala |-> "calculateSkala"]

\* whenever compareAll has returned a triple, each regime calculator called
\* separately has returned the triple's entry; when compareAll has raised
\* instead, the error is the one a separate regime call raises
SeparateCallsAgree ==
    Called("compareAll") =>
        /\ out["compareAll"].ok =>
              \A regime \in DOMAIN RegimeCalls :
                  Called(RegimeCalls[regime]) =>
                      out[RegimeCalls[regime]] =
                          Return(out["compareAll"].val[regime])
        /\ (~out["compareAll"].ok
              /\ \A regime \in DOMAIN RegimeCalls : Called(RegimeCalls[regime])) =>
              \E regime \in DOMAIN RegimeCalls :
                  out[RegimeCalls[regime]] = out["compareAll"]

----------------------------------------------------------------------------
(* Monotonicity in the revenue (SpecRevenue) *)

\* C15: with all other scenario fields equal, netCashInHand at a higher
\* revenue is not lower than at a lower revenue, in each of the three
\* regimes: across the progressive bracket limit, the linear health
\* ceiling and the region where revenue is below the costs.
C15_NetCashMonotone ==
    \A form \in DOMAIN RegimeCalls :
        \A p \in PreviousResultsOf(form), r \in ResultsOf(form) :
            /\ RLt(p.grossRevenue, r.grossRevenue)
            /\ RLe(p.netCashInHand, r.netCashInHand)

\* revenue raised from 0 (below the fixed costs of 36,000) to 400,000 under
\* the seeded 2026 rates: the progressive result passes the 120,000 limit,
\* the linear health charge reaches the ceiling, and all three results end
\* higher
C15_Witness ==
    /\ result.fn = "compareAll"
    /\ out.fn = "compareAll"
    /\ result.ret.ok
    /\ out.ret.ok
    /\ scenario.taxYearConfig = SeededConfig2026
    /\ scenario.yearlyFixedCosts = 36000
    /\ out.ret.val.liniowy.grossRevenue = Zero
    /\ out.ret.val.liniowy.taxableIncome = Zero
    /\ result.ret.val.liniowy.grossRevenue = Num(400000)
    /\ result.ret.val.liniowy.healthInsurance = Num(11600)
    /\ RLt(Num(120000), result.ret.val.skala.taxableIncome)
    /\ \A form \in DOMAIN RegimeCalls :
          RLt(out.ret.val[form].netCashInHand, result.ret.val[form].netCashInHand)

----------------------------------------------------------------------------
(* Social insurance of the regime results (Spec) *)

\* the fixed monthly tiers as the specification states them
StatedMonthlyTier ==
    [ulga_na_start |-> 0, preferencyjny |-> 650, maly_plus |-> 1700, duzy |-> 1900]

\* C16: calculateYearlyZUS returns 12 times the fixed monthly tier of the
\* contribution class (0, 650, 1,700, 1,900), the same for every RateConfig
\* or none, and the zusTotal of every regime result of the scenario equals
\* it.
C16_YearlyZusFixedTier ==
    /\ \A z \in ZusType, c \in TaxYearConfigs :
          calculateYearlyZUS(z, c) = 12 * StatedMonthlyTier[z]
    /\ \A r \in Results : r.zusTotal = Num(12 * StatedMonthlyTier[scenario.zusType])

\* small-flexible under the seeded 2026 RateConfig: the three results all
\* carry 12 * 1,700 = 20,400
C16_Witness ==
    /\ result.fn = "compareAll"
    /\ result.ret.ok
    /\ scenario.zusType = "maly_plus"
    /\ scenario.taxYearConfig = SeededConfig2026
    /\ \A r \in Results : r.zusTotal = Num(20400)
    /\ Cardinality(Results) = 3

----------------------------------------------------------------------------
(* Claims about ContributionCalculator (SpecContribution) *)

SocialSecurityCalled == out.fn = "calculateSocialSecurity"

\* the base of each class as the specification states it
StatedBase ==
    LET input == contribution.input
        config == contribution.config
    IN  CASE input.zusType = "ulga_na_start" -> Zero
          [] input.zusType = "preferencyjny" ->
                RMul(Num(config.minimumWageGross), Rat(30, 100))
          [] input.zusType = "duzy" ->
                RMul(Num(config.averageWagePrognosis), Rat(60, 100))
          [] input.zusType = "maly_plus" ->
                IF input.monthlySocialSecurityBase = undefined
                THEN Num(config.minimumWageGross)
                ELSE Num(input.monthlySocialSecurityBase)

\* every component reported for a zero base is 0
AllComponentsZero(ret) ==
    /\ ret.amount = Zero
    /\ \A k \in DOMAIN ret.breakdown : ret.breakdown[k] = Zero

\* C17: calculateSocialSecurity determines the base by class: start-relief
\* 0 (then amount 0 and every component 0), preferential 30% of the minimum
\* wage, standard 60% of the average-wage prognosis, small-flexible the
\* supplied custom base, or the minimum wage when none is supplied.
C17_BaseByClass ==
    SocialSecurityCalled =>
        /\ out.ret.base = StatedBase
        /\ contribution.input.zusType = "ulga_na_start" => AllComponentsZero(out.ret)

\* an optional component of the breakdown counts 0 when it is not reported
Reported(x) == IF x = NoValue THEN Zero ELSE x

\* C18: for a non-zero base the amount returned by calculateSocialSecurity
\* is the sum of the components it reports: base * retirement rate + base *
\* disability rate + base * accident rate + sickness + labor fund +
\* solidarity fund, sickness being base * sickness rate when the
\* voluntary-sickness flag is set and 0 otherwise.
C18_AmountIsSumOfComponents ==
    (SocialSecurityCalled /\ out.ret.base # Zero) =>
        LET b == out.ret.breakdown
            rates == contribution.config.socialSecurityRates
        IN  /\ b.retirement = RMul(out.ret.base, rates.retirement)
            /\ b.disability = RMul(out.ret.base, rates.disability)
            /\ b.accident = RMul(out.ret.base, rates.accident)
            /\ Reported(b.sickness) =
                  IF contribution.input.voluntarySickness
                  THEN RMul(out.ret.base, rates.sickness)
                  ELSE Zero
            /\ out.ret.amount =
                  RAdd(RAdd(RAdd(RAdd(RAdd(b.retirement, b.disability), b.accident),
                                 Reported(b.sickness)),
                            Reported(b.workFund)),
                       Reported(b.solidarityFund))

\* standard class with voluntary sickness under the 2026 defaults: base
\* 4,371.60, sickness 107.1042 reported and counted in the amount
C18_Witness ==
    /\ SocialSecurityCalled
    /\ contribution.input.zusType = "duzy"
    /\ contribution.input.voluntarySickness
    /\ contribution.config = DEFAULT_2026_CONFIG
    /\ out.ret.base = Rat(43716, 10)
    /\ out.ret.breakdown.sickness = Rat(1071042, 10000)
    /\ out.ret.amount = RMul(Rat(43716, 10), Rat(3654, 10000))

\* C19: the labor-fund and solidarity-fund charges of calculateSocialSecurity
\* are 0 exactly when class = preferential and base < minimum wage; in every
\* other case with a non-zero base they are base * labor-fund rate and base
\* * solidarity-fund rate.  The preferential base is below a positive
\* minimum wage, so the preferential class never pays them.
C19_FundsSuppressedForPreferential ==
    (SocialSecurityCalled /\ out.ret.base # Zero) =>
        LET b == out.ret.breakdown
            config == contribution.config
            suppressed ==
                /\ contribution.input.zusType = "preferencyjny"
                /\ RLt(out.ret.base, Num(config.minimumWageGross))
        IN  /\ suppressed <=> Reported(b.workFund) = Zero
            /\ suppressed <=> Reported(b.solidarityFund) = Zero
            /\ ~suppressed =>
                  /\ Reported(b.workFund) = RMul(out.ret.base, config.workFundRate)
                  /\ Reported(b.solidarityFund) =
                        RMul(out.ret.base, config.solidarityFundRate)
            /\ contribution.input.zusType = "preferencyjny" => suppressed

\* preferential class under the 2026 defaults: base 1,387.80, both funds
\* not charged, amount = base * (19.52% + 8% + 1.67%)
C19_Witness ==
    /\ SocialSecurityCalled
    /\ contribution.input.zusType = "preferencyjny"
    /\ ~contribution.input.voluntarySickness
    /\ contribution.config = DEFAULT_2026_CONFIG
    /\ out.ret.base = Rat(13878, 10)
    /\ out.ret.breakdown.workFund = NoValue
    /\ out.ret.breakdown.solidarityFund = NoValue
    /\ out.ret.amount = RMul(Rat(13878, 10), Rat(2919, 10000))

\* the flat-rate multiplier tiers as the specification states them
StatedMultiplier(revenue) ==
    IF revenue <= 60000 THEN Rat(6, 10)
    ELSE IF revenue <= 300000 THEN One
    ELSE Rat(18, 10)

\* C20: calculateHealthInsurance for the flat-rate regime returns amount =
\* prior-year-Q4 average wage * 9% * multiplier, the multiplier being 0.6 for
\* every cumulative yearly revenue from 0 up to and including 60,000, 1.0
\* above 60,000 up to and including 300,000 and 1.8 above 300,000;
\* deductibleFromIncome is half the amount and deductibleFromTax is 0.
C20_FlatRateHealthTiers ==
    (/\ out.fn = "calculateHealthInsurance"
     /\ contribution.input.taxationForm = "ryczalt"
     /\ contribution.input.yearlyRevenueToDate # undefined) =>
        /\ out.ret.amount =
              RMul(RMul(Num(contribution.config.averageWageQ4PreviousYear), Rat(9, 100)),
                   StatedMultiplier(contribution.input.yearlyRevenueToDate))
        /\ out.ret.deductibleFromIncome = RDiv(out.ret.amount, Num(2))
        /\ out.ret.deductibleFromTax = Zero

HealthInsuranceCalled(form) ==
    /\ out.fn = "calculateHealthInsurance"
    /\ contribution.input.taxationForm = form

\* max(monthlyNetIncome, minimum wage), the base of both income-based regimes
StatedHealthBase ==
    RMax(Num(contribution.monthlyIncome), Num(contribution.config.minimumWageGross))

----------------------------------------------------------------------------
(* End-to-end example, separate regime calls and built-in defaults (Spec) *)

\* revenue 180,000, fixed costs 36,000, small-flexible, VAT-registered,
\* vatRateMixed 1.0, no investments, 2026 rates (built in or seeded)
ExampleScenario ==
    /\ scenario.yearlyRevenueNetto = 180000
    /\ scenario.yearlyFixedCosts = 36000
    /\ scenario.zusType = "maly_plus"
    /\ scenario.vatPayer
    /\ scenario.vatRateMixed = One
    /\ scenario.carInvestments = <<>>
    /\ scenario.equipmentInvestments = <<>>
    /\ scenario.taxYearConfig \in {NoConfig, SeededConfig2026}

\* C23: for the example scenario compareAll yields flat-rate incomeTax
\* 21,600, linear taxableIncome 144,000 and incomeTax 27,360, progressive
\* taxableIncome 114,000 and incomeTax 13,680.
C23_EndToEndExample ==
    (ExampleScenario /\ result.fn = "compareAll") =>
        /\ result.ret.ok
        /\ result.ret.val.ryczalt.incomeTax = Num(21600)
        /\ result.ret.val.liniowy.taxableIncome = Num(144000)
        /\ result.ret.val.liniowy.incomeTax = Num(27360)
        /\ result.ret.val.skala.taxableIncome = Num(114000)
        /\ result.ret.val.skala.incomeTax = Num(13680)

\* compareAll has returned for the example scenario with the seeded 2026 row
C23_Witness ==
    /\ ExampleScenario
    /\ scenario.taxYearConfig = SeededConfig2026
    /\ result.fn = "compareAll"
    /\ result.ret.ok
    /\ result.ret.val.liniowy.grossRevenue = Num(180000)
    /\ result.ret.val.liniowy.totalCosts = Num(36000)

\* C27: each regime calculator called on its own (calculateRyczalt,
\* calculateLiniowy, calculateSkala) yields an error and no TaxResult for a
\* scenario that contains a lease-financed vehicle with an absent lease
\* parameter.
C27_EachRegimeRejectsMissingLease ==
    (/\ result.fn \in {"calculateRyczalt", "calculateLiniowy", "calculateSkala"}
     /\ LeaseParameterAbsent) =>
        /\ ~result.ret.ok
        /\ result.ret.val = NoValue

\* the scenario with the other source of 2026 rates: the seeded row in
\* place of no taxYearConfig, and the reverse
WithOther2026Rates ==
    [scenario EXCEPT !.taxYearConfig =
        IF @ = NoConfig THEN SeededConfig2026 ELSE NoConfig]

\* C30: for every scenario the regime results computed with no
\* taxYearConfig equal the results computed with the seeded 2026 RateConfig:
\* the built-in defaults and the seeded 2026 record agree.
C30_DefaultsMatchSeeded2026 ==
    result # NoCall => result.ret = EngineCall(result.fn, WithOther2026Rates)

----------------------------------------------------------------------------
(* Claims about the calculate endpoint (SpecServer) *)

\* the last exchange was a comparison asked for a stored scenario
CalculateServed ==
    /\ response # NoCall
    /\ response.endpoint = "calculate"
    /\ \E s \in db.scenarios : s.id = response.scenarioId

\* the tax year of the request, 2026 when it names none
RequestedTaxYear ==
    IF response.request.selectedTaxYear = undefined
    THEN 2026
    ELSE response.request.selectedTaxYear

NoStoredRateConfig == \A r \in db.taxYearConfigs : r.year # RequestedTaxYear

\* C24: POST /api/simulation/:id/calculate for a tax year without a stored
\* RateConfig record reports a configuration-not-found error and never
\* returns a ComparisonResult computed without the RateConfig of that year.
C24_MissingRateConfigReported ==
    (CalculateServed /\ NoStoredRateConfig) =>
        /\ response.status # 200
        /\ response.body = [error |-> "Configuration not found"]

\* the stored investments of the scenario of the last request
StoredInvestments == InvestmentsOfScenario(db, response.scenarioId)

StoredVehicles ==
    {StoredInvestments[i] : i \in {j \in 1..Len(StoredInvestments) :
                                      StoredInvestments[j].type \in CarTypes}}

DetailsOf(inv) == {d \in db.carDetails : d.investmentId = inv.id}

\* the vehicle a stored investment and its detail record describe, lease
\* parameters as they were supplied
StoredVehicle(inv) ==
    LET d == CHOOSE d \in DetailsOf(inv) : TRUE
    IN  [carPriceNetto |-> d.carPriceNetto, engineType |-> d.engineType,
         financingMethod |-> d.financingMethod, usageType |-> d.usageType,
         leasingInitialPaymentPercent |-> d.leasingInitialPaymentPercent,
         leasingMonths |-> d.leasingMonths,
         leasingBuyoutPercent |-> d.leasingBuyoutPercent,
         monthOfPurchase |-> inv.monthOfPurchase]

\* the deduction of a stored vehicle as the specification composes it
StatedVehicleDeduction(c) ==
    IF c.financingMethod = "leasing"
    THEN StatedLeaseDeduction(c)
    ELSE RDiv(RMul(RMul(Num(IntMin(c.carPriceNetto, StatedCeiling(c.engineType))),
                        Rat(20, 100)),
                   Num(13 - c.monthOfPurchase)), Num(12))

StatedVehicleDeductions ==
    RSum([i \in 1..Len(StoredInvestments) |->
            IF StoredInvestments[i].type \in CarTypes
            THEN StatedVehicleDeduction(StoredVehicle(StoredInvestments[i]))
            ELSE Zero])

StatedEquipmentDeductions ==
    RSum([i \in 1..Len(StoredInvestments) |->
            IF StoredInvestments[i].type \in CarTypes
            THEN Zero
            ELSE RDiv(RMul(RMul(Num(StoredInvestments[i].costNetto), Rat(30, 100)),
                           Num(13 - StoredInvestments[i].monthOfPurchase)), Num(12))])

\* C25: the calculate endpoint hands every stored investment of the
\* scenario to the engine, car_leasing and car_cash as vehicles and any
\* other type as equipment; a stored vehicle without a vehicle-detail
\* record makes the request fail instead of being left out of the result.
C25_EveryStoredInvestmentCounted ==
    CalculateServed =>
        IF \E inv \in StoredVehicles : DetailsOf(inv) = {}
        THEN response.status # 200
        ELSE response.status = 200 =>
                /\ response.body.liniowy.breakdown.carDepreciationDeduction
                       = StatedVehicleDeductions
                /\ response.body.liniowy.breakdown.equipmentDepreciationDeduction
                       = StatedEquipmentDeductions

\* C28: a lease-financed vehicle whose three lease parameters are all
\* supplied, 0% down payment and 0% buyout included, is never rejected as
\* missing lease parameters: the calculate endpoint, which rebuilds the
\* vehicle from storage, returns the lease formula's value for it.
C28_SuppliedZeroLeaseAccepted ==
    (/\ CalculateServed
     /\ StoredVehicles # {}
     /\ \A inv \in StoredVehicles :
            /\ DetailsOf(inv) # {}
            /\ StoredVehicle(inv).financingMethod = "leasing"
            /\ LeaseParametersPresent(StoredVehicle(inv))) =>
        /\ response.status = 200
        /\ response.body.liniowy.breakdown.carDepreciationDeduction = StatedVehicleDeductions

----------------------------------------------------------------------------
(* Claims about the simulator page (SpecSimulator) *)

\* the deductions of the investments the page lists, as the specification
\* composes them
ListedVehicleDeductions ==
    RSum([i \in 1..Len(ui.investments) |->
            IF ui.investments[i].type = "car"
            THEN StatedVehicleDeduction(ui.investments[i].data)
            ELSE Zero])

ListedEquipmentDeductions ==
    RSum([i \in 1..Len(ui.investments) |->
            IF ui.investments[i].type = "equipment"
            THEN RDiv(RMul(RMul(Num(ui.investments[i].data.costNetto), Rat(30, 100)),
                           Num(13 - ui.investments[i].data.monthOfPurchase)), Num(12))
            ELSE Zero])

\* C29: after any sequence of add-investment and remove-investment
\* actions, the comparison the simulator shows counts the investments it
\* lists: an investment the user removed is no longer counted.
C29_ListedInvestmentsAreCounted ==
    (ui.step = "results" /\ response.status = 200) =>
        /\ ui.results.liniowy.breakdown.carDepreciationDeduction = ListedVehicleDeductions
        /\ ui.results.liniowy.breakdown.equipmentDepreciationDeduction
               = ListedEquipmentDeductions

----------------------------------------------------------------------------
(* Claims about POST /api/tax-config (SpecTaxConfig) *)

AtMostOneRateConfigPerYear ==
    \A r1, r2 \in db.taxYearConfigs : r1.year = r2.year => r1 = r2

\* every stored year keeps its record's id
IdsKept ==
    \A r \in db.taxYearConfigs :
        \E kept \in db'.taxYearConfigs : kept.year = r.year /\ kept.id = r.id

\* a request that found a record of its year has set that record's columns
\* and answered with its id
UpdatedInPlace ==
    (/\ response # NoCall
     /\ response.endpoint = "tax-config"
     /\ response.status = 200
     /\ response.body.message = "Config updated") =>
        \E r \in db.taxYearConfigs :
            /\ r.id = response.body.id
            /\ TaxYearConfigOf(r) = response.request

\* C26: after any interleaving of POST /api/tax-config requests, two
\* concurrent requests for the same unstored year included, the store
\* holds at most one RateConfig record per fiscal year, and a request for a
\* year that has a record updates that record and keeps its id.
C26_OneRateConfigPerYear ==
    /\ [](AtMostOneRateConfigPerYear /\ UpdatedInPlace)
    /\ [][IdsKept]_vars

\* two requests for the unstored year 2030 were both past their select
\* when the first wrote; the first record is stored and the second request
\* was refused
C26_Witness ==
    /\ response # NoCall
    /\ response.endpoint = "tax-config"
    /\ response.status = 500
    /\ response.request.year = 2030
    /\ \E r \in db.taxYearConfigs :
          r.year = 2030 /\ r.minimumWageGross # response.request.minimumWageGross

====
